---------------------------- MODULE Spec2Model ----------------------------
(***************************************************************************)
(* A model of the algorithmic core of Kanzi:                               *)
(*   - ByteFunctionFactory (transform type words, names, instantiation),   *)
(*   - ANSRangeEncoder (order 0/1 rANS encoder, chunked),                  *)
(*   - ExpGolombDecoder,                                                   *)
(*   - the chunked, concurrent inverse BWT.                                *)
(* Each component has its own specification (SpecFactory, SpecANS,         *)
(* SpecGolomb, SpecBWT) over the variables of that component; the other    *)
(* components' variables stay at their idle value.                         *)
(***************************************************************************)
EXTENDS Integers, Sequences, FiniteSets, TLC

VARIABLES
    \* ---- ByteFunctionFactory ----
    tokens,        \* the tokens the specification string was joined from
    name,          \* String name: a sequence of characters
    functionType,  \* int functionType: a signed 32-bit word
    given,         \* what the caller supplied: "name" or "word"
    op,            \* the factory call made last
    res,           \* what that call returned or threw
    \* ---- ExpGolombDecoder ----
    egBytes,       \* the bytes the encoder was given
    bits,          \* _bitstream: the bits of the stream, in reading order
    bitpos,        \* _bitstream: the number of bits read so far
    egSigned,      \* _signed
    byteSigned,    \* whether the build's byte type is a signed char
    block,         \* byte block[]
    blkptr,        \* uint blkptr
    egRet,         \* what decode returned or threw
    refOut,        \* the results of successive decodeByte calls on the same bits
    refPos,        \* the bits those calls have read
    \* ---- ANSRangeEncoder ----
    order,         \* _order
    logRange,      \* _logRange
    chunkSize,     \* _chunkSize
    bufferSize,    \* _bufferSize
    ansBlock,      \* byte block[] of encode, blkptr being 0
    freqs,         \* _freqs
    symbols,       \* _symbols
    startChunk,    \* encode: startChunk
    sizeChunk,     \* encode: sizeChunk
    lr,            \* encode: lr
    st,            \* encodeChunk: st
    idx,           \* encodeChunk: i
    prv,           \* encodeChunk: prv
    buffer,        \* encodeChunk: _buffer[p+1 .. p0]
    bitstream,     \* _bitstream: the writes made so far
    ansPc,         \* where encode is
    ansRet,        \* what encode returned
    dec,           \* a decoder of the chunk using the frequencies of the header
    decM,          \* a decoder of the chunk using the frequencies of the encoder
    coded,         \* encodeChunk: the byte coded last, and the table it was coded with
    \* ---- BWT, inverse ----
    bwtBlock,      \* the block B given to forward
    bwtInput,      \* input of inverse: the transformed bytes
    jobs,          \* _jobs
    chunks,        \* the number of chunks of the block
    primaryIndexes,\* _primaryIndexes
    buckets,       \* _buckets
    bwtBuffer,     \* _buffer1: the packed rank and byte of every position
    dst,           \* output of inverse
    tasks,         \* the chunk tasks and how far each has run
    writers,       \* for every output position, the tasks that have written it
    bwtPc,         \* where inverse is
    \* ---- ANSEncSymbol, on its own ----
    symLogRange,   \* reset: logRange
    symCumFreq,    \* reset: cumFreq
    symFreq,       \* reset: freq
    symState,      \* the state st the symbol is applied to
    encSymbol,     \* the ANSEncSymbol
    symNext,       \* the state after the step
    symPc,         \* "init", "reset" or "stepped"
    \* ---- the log range of a chunk and its header field, on their own ----
    hdrLogRange,   \* _logRange
    hdrSizeChunk,  \* encode: sizeChunk
    hdrLr,         \* encode: lr
    hdrBits,       \* the bits of the header field, in writing order
    hdrRead,       \* the log range a reader of the field takes
    hdrPc,         \* "chunk", "lowered", "written" or "read"
    \* ---- encodeChunk over any table of frequencies, on its own ----
    runLr,         \* lr
    runSym,        \* the ANSEncSymbol of the byte being coded
    runSt,         \* st
    runEmitted,    \* the bytes the renormalisation of this symbol emitted
    runCount,      \* the symbols coded so far
    runPc,         \* "symbol", "update", "end" or "overrun"
    \* ---- ExpGolombDecoder.decodeByte on any bits ----
    rawBits,       \* _bitstream: the bits of the stream, in reading order
    rawSigned,     \* _signed
    rawByteSigned, \* whether the build's byte type is a signed char
    rawStart,      \* the bits read before the last call of decodeByte
    rawPos,        \* the bits read so far
    rawRes         \* what the last call of decodeByte returned or threw

facVars == <<tokens, name, functionType, given, op, res>>

egVars == <<egBytes, bits, bitpos, egSigned, byteSigned, block, blkptr, egRet, refOut, refPos>>

ansVars ==
    <<order, logRange, chunkSize, bufferSize, ansBlock, freqs, symbols, startChunk,
      sizeChunk, lr, st, idx, prv, buffer, bitstream, ansPc, ansRet, dec, decM, coded>>

bwtVars ==
    <<bwtBlock, bwtInput, jobs, chunks, primaryIndexes, buckets, bwtBuffer, dst, tasks,
      writers, bwtPc>>

symVars ==
    <<symLogRange, symCumFreq, symFreq, symState, encSymbol, symNext, symPc>>

hdrVars == <<hdrLogRange, hdrSizeChunk, hdrLr, hdrBits, hdrRead, hdrPc>>

runVars == <<runLr, runSym, runSt, runEmitted, runCount, runPc>>

rawVars == <<rawBits, rawSigned, rawByteSigned, rawStart, rawPos, rawRes>>

vars == <<facVars, egVars, ansVars, bwtVars, symVars, hdrVars, runVars, rawVars>>

notFac == <<egVars, ansVars, bwtVars, symVars, hdrVars, runVars, rawVars>>

notEg == <<facVars, ansVars, bwtVars, symVars, hdrVars, runVars, rawVars>>

notAns == <<facVars, egVars, bwtVars, symVars, hdrVars, runVars, rawVars>>

notBwt == <<facVars, egVars, ansVars, symVars, hdrVars, runVars, rawVars>>

notSym == <<facVars, egVars, ansVars, bwtVars, hdrVars, runVars, rawVars>>

notHdr == <<facVars, egVars, ansVars, bwtVars, symVars, runVars, rawVars>>

notRun == <<facVars, egVars, ansVars, bwtVars, symVars, hdrVars, rawVars>>

notRaw == <<facVars, egVars, ansVars, bwtVars, symVars, hdrVars, runVars>>

(***************************************************************************)
(* 32-bit int arithmetic.  A Java int is kept as its signed value in       *)
(* -2^31 .. 2^31-1; the factory only shifts by multiples of 4, so a word   *)
(* is handled as its eight nibbles, nibble 0 being bits 31..28.            *)
(***************************************************************************)
Pow2(n) == 2 ^ n

Nib(w, i) == (w \div Pow2(28 - 4 * i)) % 16

FromNibs(f) ==
    (IF f[0] >= 8 THEN f[0] - 16 ELSE f[0]) * Pow2(28)
    + f[1] * Pow2(24) + f[2] * Pow2(20) + f[3] * Pow2(16)
    + f[4] * Pow2(12) + f[5] * Pow2(8) + f[6] * Pow2(4) + f[7]

\* x << s on 32 bits, s a multiple of 4 in 0..28
Shl32(x, s) ==
    FromNibs([i \in 0..7 |-> IF i + (s \div 4) <= 7 THEN Nib(x, i + (s \div 4)) ELSE 0])

\* x >>> s on 32 bits, s a multiple of 4 in 0..28
UShr32(x, s) ==
    FromNibs([i \in 0..7 |-> IF i - (s \div 4) >= 0 THEN Nib(x, i - (s \div 4)) ELSE 0])

Or4(a, b) ==
    LET bit(x, j) == (x \div Pow2(j)) % 2
        or(j) == IF bit(a, j) = 1 \/ bit(b, j) = 1 THEN Pow2(j) ELSE 0
    IN  or(0) + or(1) + or(2) + or(3)

\* a | b on 32 bits
Or32(a, b) == FromNibs([i \in 0..7 |-> Or4(Nib(a, i), Nib(b, i))])

\* x & 0x0F
And0F(x) == x % 16

(***************************************************************************)
(* Strings are sequences of one-character strings.                         *)
(***************************************************************************)
LowerToUpper ==
    ("a" :> "A") @@ ("b" :> "B") @@ ("c" :> "C") @@ ("d" :> "D") @@ ("e" :> "E") @@
    ("f" :> "F") @@ ("g" :> "G") @@ ("h" :> "H") @@ ("i" :> "I") @@ ("j" :> "J") @@
    ("k" :> "K") @@ ("l" :> "L") @@ ("m" :> "M") @@ ("n" :> "N") @@ ("o" :> "O") @@
    ("p" :> "P") @@ ("q" :> "Q") @@ ("r" :> "R") @@ ("s" :> "S") @@ ("t" :> "T") @@
    ("u" :> "U") @@ ("v" :> "V") @@ ("w" :> "W") @@ ("x" :> "X") @@ ("y" :> "Y") @@
    ("z" :> "Z")

\* String.toUpperCase
toUpperCase(s) ==
    [i \in 1..Len(s) |-> IF s[i] \in DOMAIN LowerToUpper THEN LowerToUpper[s[i]] ELSE s[i]]

\* name.indexOf('+') < 0
NoPlus(s) == \A i \in 1..Len(s) : s[i] # "+"

RECURSIVE Pieces(_, _, _)
\* the substrings of s around every '+', empty ones included; cur is the piece
\* being read and i the next character
Pieces(s, i, cur) ==
    IF i > Len(s) THEN <<cur>>
    ELSE IF s[i] = "+" THEN <<cur>> \o Pieces(s, i + 1, <<>>)
    ELSE Pieces(s, i + 1, Append(cur, s[i]))

RECURSIVE DropTrailingEmpty(_)
DropTrailingEmpty(ps) ==
    IF Len(ps) > 0 /\ ps[Len(ps)] = <<>>
    THEN DropTrailingEmpty(SubSeq(ps, 1, Len(ps) - 1))
    ELSE ps

\* String.split("\\+"): limit 0, so trailing empty strings are removed; a leading
\* empty string (a '+' at index 0) is kept; a string without '+' is the one piece
split(s) == IF NoPlus(s) THEN <<s>> ELSE DropTrailingEmpty(Pieces(s, 1, <<>>))

(***************************************************************************)
(* ByteFunctionFactory                                                     *)
(***************************************************************************)
NONE_TYPE   == 0
BWT_TYPE    == 1
BWTS_TYPE   == 2
LZ4_TYPE    == 3
SNAPPY_TYPE == 4
RLT_TYPE    == 5
ZRLT_TYPE   == 6
MTFT_TYPE   == 7
RANK_TYPE   == 8
X86_TYPE    == 9
DICT_TYPE   == 10

\* the limit of getType on the number of tokens
MaxTransforms == 8

Returned(v) == [ok |-> TRUE, val |-> v]

\* throw new IllegalArgumentException(prefix + arg)
Thrown(prefix, arg) ==
    [ok |-> FALSE, exc |-> "IllegalArgumentException", prefix |-> prefix, arg |-> arg]

getTypeToken_SwapLZ4(nm) ==
    LET up == toUpperCase(nm)
    IN  CASE up = <<"B", "W", "T">>                -> Returned(BWT_TYPE)
          [] up = <<"B", "W", "T", "S">>           -> Returned(BWTS_TYPE)
          [] up = <<"S", "N", "A", "P", "P", "Y">> -> Returned(LZ4_TYPE)
          [] up = <<"L", "Z", "4">>                -> Returned(SNAPPY_TYPE)
          [] up = <<"M", "T", "F", "T">>           -> Returned(MTFT_TYPE)
          [] up = <<"Z", "R", "L", "T">>           -> Returned(ZRLT_TYPE)
          [] up = <<"R", "L", "T">>                -> Returned(RLT_TYPE)
          [] up = <<"R", "A", "N", "K">>           -> Returned(RANK_TYPE)
          [] up = <<"X", "8", "6">>                -> Returned(X86_TYPE)
          [] up = <<"T", "E", "X", "T">>           -> Returned(DICT_TYPE)
          [] up = <<"N", "O", "N", "E">>           -> Returned(NONE_TYPE)
          [] OTHER -> Thrown("Unknown transform type: ", up)

getTypeToken(nm) ==
    LET up == toUpperCase(nm)
    IN  CASE up = <<"B", "W", "T">>                -> Returned(BWT_TYPE)
          [] up = <<"B", "W", "T", "S">>           -> Returned(BWTS_TYPE)
          [] up = <<"S", "N", "A", "P", "P", "Y">> -> Returned(SNAPPY_TYPE)
          [] up = <<"L", "Z", "4">>                -> Returned(LZ4_TYPE)
          [] up = <<"M", "T", "F", "T">>           -> Returned(MTFT_TYPE)
          [] up = <<"Z", "R", "L", "T">>           -> Returned(ZRLT_TYPE)
          [] up = <<"R", "L", "T">>                -> Returned(RLT_TYPE)
          [] up = <<"R", "A", "N", "K">>           -> Returned(RANK_TYPE)
          [] up = <<"X", "8", "6">>                -> Returned(X86_TYPE)
          [] up = <<"T", "E", "X", "T">>           -> Returned(DICT_TYPE)
          [] up = <<"N", "O", "N", "E">>           -> Returned(NONE_TYPE)
          [] OTHER -> Thrown("Unknown transform type: ", up)

RECURSIVE getTypeLoop(_, _, _, _)
\* for (String token: tokens): k is the next token, r and shift the locals
getTypeLoop(tks, k, r, shift) ==
    IF k > Len(tks) THEN Returned(r)
    ELSE LET typeTk == getTypeToken(tks[k])
         IN  IF ~typeTk.ok THEN typeTk
             ELSE IF typeTk.val # NONE_TYPE
                  THEN getTypeLoop(tks, k + 1, Or32(r, Shl32(typeTk.val, shift)), shift - 4)
                  ELSE getTypeLoop(tks, k + 1, r, shift)

getType_Max7(nm) ==
    IF NoPlus(nm)
    THEN LET t == getTypeToken(nm)
         IN  IF t.ok THEN Returned(Shl32(t.val, 28)) ELSE t
    ELSE LET tks == split(nm)
         IN  IF Len(tks) = 0 THEN Thrown("Unknown transform type: ", nm)
             ELSE IF Len(tks) >= MaxTransforms
                  THEN Thrown("Only 8 transforms allowed: ", nm)
                  ELSE getTypeLoop(tks, 1, 0, 28)

getType(nm) ==
    IF NoPlus(nm)
    THEN LET t == getTypeToken(nm)
         IN  IF t.ok THEN Returned(Shl32(t.val, 28)) ELSE t
    ELSE LET tks == split(nm)
         IN  IF Len(tks) = 0 THEN Thrown("Unknown transform type: ", nm)
             ELSE IF Len(tks) > MaxTransforms
                  THEN Thrown("Only 8 transforms allowed: ", nm)
                  ELSE getTypeLoop(tks, 1, 0, 28)

getNameToken(t) ==
    CASE And0F(t) = LZ4_TYPE    -> Returned(<<"L", "Z", "4">>)
      [] And0F(t) = BWT_TYPE    -> Returned(<<"B", "W", "T">>)
      [] And0F(t) = BWTS_TYPE   -> Returned(<<"B", "W", "T", "S">>)
      [] And0F(t) = SNAPPY_TYPE -> Returned(<<"S", "N", "A", "P", "P", "Y">>)
      [] And0F(t) = MTFT_TYPE   -> Returned(<<"M", "T", "F", "T">>)
      [] And0F(t) = ZRLT_TYPE   -> Returned(<<"Z", "R", "L", "T">>)
      [] And0F(t) = RLT_TYPE    -> Returned(<<"R", "L", "T">>)
      [] And0F(t) = RANK_TYPE   -> Returned(<<"R", "A", "N", "K">>)
      [] And0F(t) = X86_TYPE    -> Returned(<<"X", "8", "6">>)
      [] And0F(t) = DICT_TYPE   -> Returned(<<"T", "E", "X", "T">>)
      [] And0F(t) = NONE_TYPE   -> Returned(<<"N", "O", "N", "E">>)
      [] OTHER -> Thrown("Unknown transform type: ", t)

RECURSIVE getNameLoop(_, _, _)
\* for (int i=0; i<8; i++): sb is the StringBuilder
getNameLoop(w, i, sb) ==
    IF i >= 8
    THEN IF Len(sb) = 0 THEN getNameToken(NONE_TYPE) ELSE Returned(sb)
    ELSE LET t == UShr32(w, 28 - 4 * i)
         IN  IF And0F(t) = NONE_TYPE THEN getNameLoop(w, i + 1, sb)
             ELSE LET nm == getNameToken(t)
                  IN  IF ~nm.ok THEN nm
                      ELSE getNameLoop(w, i + 1,
                               (IF Len(sb) # 0 THEN Append(sb, "+") ELSE sb) \o nm.val)

getName_SkipFirst(w) == getNameLoop(w, 1, <<>>)

getName(w) == getNameLoop(w, 0, <<>>)

newFunctionToken(t) ==
    CASE And0F(t) = SNAPPY_TYPE -> Returned("SnappyCodec")
      [] And0F(t) = LZ4_TYPE    -> Returned("LZ4Codec")
      [] And0F(t) = BWT_TYPE    -> Returned("BWTBlockCodec")
      [] And0F(t) = BWTS_TYPE   -> Returned("BWTS")
      [] And0F(t) = MTFT_TYPE   -> Returned("MTFT")
      [] And0F(t) = ZRLT_TYPE   -> Returned("ZRLT")
      [] And0F(t) = RLT_TYPE    -> Returned("RLT")
      [] And0F(t) = RANK_TYPE   -> Returned("SBRT")
      [] And0F(t) = DICT_TYPE   -> Returned("TextCodec")
      [] And0F(t) = X86_TYPE    -> Returned("X86Codec")
      [] And0F(t) = NONE_TYPE   -> Returned("NullFunction")
      [] OTHER -> Thrown("Unknown transform type: ", t)

\* an array slot no instance was stored in
NullRef == "null"

RECURSIVE newFunctionLoop(_, _, _, _)
\* the second loop of newFunction: for (int i=0; i<transforms.length; i++)
newFunctionLoop(w, i, transforms, nbtr) ==
    IF i >= Len(transforms) THEN Returned(transforms)
    ELSE LET t == And0F(UShr32(w, 28 - 4 * i))
         IN  IF (t # NONE_TYPE) \/ (i = 0)
             THEN LET f == newFunctionToken(t)
                  IN  IF ~f.ok THEN f
                      ELSE newFunctionLoop(w, i + 1,
                               [transforms EXCEPT ![nbtr + 1] = f.val], nbtr + 1)
             ELSE newFunctionLoop(w, i + 1, transforms, nbtr)

newFunction(w) ==
    LET count == Cardinality({i \in 0..7 : And0F(UShr32(w, 28 - 4 * i)) # NONE_TYPE})
        nbtr  == IF count = 0 THEN 1 ELSE count
    IN  newFunctionLoop(w, 0, [k \in 1..nbtr |-> NullRef], 0)

(***************************************************************************)
(* The factory's callers: a caller holds either a specification string     *)
(* (joined from tokens) or a type word read from a block header.           *)
(***************************************************************************)
Tok(text, id) == [text |-> text, id |-> id]

\* the name set of the grammar, with the identifier assigned to each name
ValidUpper ==
    { Tok(<<"N", "O", "N", "E">>, 0), Tok(<<"B", "W", "T">>, 1),
      Tok(<<"B", "W", "T", "S">>, 2), Tok(<<"L", "Z", "4">>, 3),
      Tok(<<"S", "N", "A", "P", "P", "Y">>, 4), Tok(<<"R", "L", "T">>, 5),
      Tok(<<"Z", "R", "L", "T">>, 6), Tok(<<"M", "T", "F", "T">>, 7),
      Tok(<<"R", "A", "N", "K">>, 8), Tok(<<"X", "8", "6">>, 9),
      Tok(<<"T", "E", "X", "T">>, 10) }

MixedCase ==
    { Tok(<<"b", "w", "t">>, 1), Tok(<<"n", "O", "n", "E">>, 0),
      Tok(<<"T", "e", "x", "t">>, 10), Tok(<<"l", "z", "4">>, 3) }

\* tokens outside the name set (id -1): the empty token, an unknown name, a
\* name with one letter too many
Invalid ==
    { Tok(<<>>, -1), Tok(<<"A">>, -1), Tok(<<"B", "W", "T", "T">>, -1) }

Vocab == ValidUpper \cup MixedCase \cup Invalid

LongVocab ==
    { Tok(<<"N", "O", "N", "E">>, 0), Tok(<<"B", "W", "T">>, 1),
      Tok(<<"t", "e", "x", "t">>, 10) }

\* token lists of up to MaxFullLen tokens range over the whole vocabulary,
\* longer ones (up to MaxTokens) over LongVocab
MaxFullLen == 2
MaxTokens == 9

Letters(n) == [i \in 1..n |-> <<"A", "B", "C", "D", "E", "F", "G", "H", "I", "J", "K">>[i]]

ExampleLists ==
    { <<Tok(<<"B", "W", "T">>, 1), Tok(<<"M", "T", "F", "T">>, 7),
        Tok(<<"Z", "R", "L", "T">>, 6)>>,
      [i \in 1..9 |-> Tok(<<Letters(9)[i]>>, -1)],
      [i \in 1..8 |-> Tok(<<Letters(8)[i]>>, -1)],
      <<Tok(<<"R", "A", "N", "K">>, 8), Tok(<<"X", "8", "6">>, 9),
        Tok(<<"T", "E", "X", "T">>, 10), Tok(<<"S", "N", "A", "P", "P", "Y">>, 4),
        Tok(<<"R", "L", "T">>, 5), Tok(<<"Z", "R", "L", "T">>, 6),
        Tok(<<"M", "T", "F", "T">>, 7), Tok(<<"B", "W", "T", "S">>, 2)>> }

TokenLists ==
    UNION { [1..n -> Vocab] : n \in 0..MaxFullLen }
    \cup UNION { [1..n -> LongVocab] : n \in (MaxFullLen + 1)..MaxTokens }
    \cup { Append(b, Tok(<<>>, -1)) : b \in [1..MaxTransforms -> LongVocab] }
    \cup ExampleLists

RECURSIVE Join(_)
\* the tokens' texts joined by '+'
Join(tks) ==
    IF Len(tks) = 0 THEN <<>>
    ELSE IF Len(tks) = 1 THEN tks[1].text
    ELSE tks[1].text \o <<"+">> \o Join(Tail(tks))

SmallNibs == {0, 7, 12}

Words ==
    { FromNibs(f) : f \in [0..7 -> SmallNibs] }
    \cup { FromNibs([i \in 0..7 |-> IF i = p THEN a ELSE IF i = q THEN b ELSE 0]) :
             p \in 0..7, q \in 0..7, a \in 0..15, b \in 0..15 }
    \cup { FromNibs([i \in 0..7 |-> <<1, 7, 6, 0, 0, 0, 0, 0>>[i + 1]]),
           FromNibs([i \in 0..7 |-> <<10, 9, 8, 5, 4, 3, 2, 1>>[i + 1]]) }

NoResult == [ok |-> FALSE, exc |-> "none", prefix |-> "", arg |-> <<>>]

FacIdle ==
    /\ tokens = <<>> /\ name = <<>> /\ functionType = 0
    /\ given = "nothing" /\ op = "init" /\ res = NoResult

EgIdle ==
    /\ egBytes = <<>> /\ bits = <<>> /\ bitpos = 0 /\ egSigned = FALSE
    /\ byteSigned = FALSE /\ block = <<>> /\ blkptr = 0 /\ egRet = NoResult
    /\ refOut = <<>> /\ refPos = 0

AnsIdle ==
    /\ order = 0 /\ logRange = 8 /\ chunkSize = 0 /\ bufferSize = 0
    /\ ansBlock = <<>> /\ freqs = <<>> /\ symbols = <<>> /\ startChunk = 0
    /\ sizeChunk = 0 /\ lr = 8 /\ st = 0 /\ idx = 0 /\ prv = 0 /\ buffer = <<>>
    /\ bitstream = <<>> /\ ansPc = "idle" /\ ansRet = NoResult
    /\ dec = <<>> /\ decM = <<>> /\ coded = <<>>

BwtIdle ==
    /\ bwtBlock = <<>> /\ bwtInput = <<>> /\ jobs = 1 /\ chunks = 1
    /\ primaryIndexes = <<>> /\ buckets = <<>> /\ bwtBuffer = <<>> /\ dst = <<>>
    /\ tasks = <<>> /\ writers = <<>> /\ bwtPc = "idle"

SymIdle ==
    /\ symLogRange = 8 /\ symCumFreq = 0 /\ symFreq = 1 /\ symState = 0
    /\ encSymbol = <<>> /\ symNext = 0 /\ symPc = "idle"

HdrIdle ==
    /\ hdrLogRange = 8 /\ hdrSizeChunk = 0 /\ hdrLr = 8 /\ hdrBits = <<>>
    /\ hdrRead = 8 /\ hdrPc = "idle"

RunIdle ==
    /\ runLr = 8 /\ runSym = <<>> /\ runSt = 0 /\ runEmitted = <<>>
    /\ runCount = 0 /\ runPc = "idle"

RawIdle ==
    /\ rawBits = <<>> /\ rawSigned = FALSE /\ rawByteSigned = FALSE
    /\ rawStart = 0 /\ rawPos = 0 /\ rawRes = NoResult

FacInit ==
    /\ EgIdle
    /\ AnsIdle
    /\ BwtIdle
    /\ SymIdle
    /\ HdrIdle
    /\ RunIdle
    /\ RawIdle
    /\ op = "init"
    /\ res = NoResult
    /\ \/ /\ given = "name"
          /\ tokens \in TokenLists
          /\ name = Join(tokens)
          /\ functionType = 0
       \/ /\ given = "word"
          /\ functionType \in Words
          /\ tokens = <<>>
          /\ name = <<>>

\* int type = factory.getType(name), on the caller's string or on the string
\* getName returned
CallGetType ==
    /\ \/ given = "name" /\ op = "init"
       \/ given = "word" /\ op = "getName" /\ res.ok
    /\ res' = getType(name)
    /\ op' = "getType"
    /\ UNCHANGED <<tokens, name, functionType, given>>
    /\ UNCHANGED notFac

\* String s = factory.getName(functionType)
CallGetName ==
    /\ given = "word" /\ op = "init"
    /\ res' = getName(functionType)
    /\ name' = IF res'.ok THEN res'.val ELSE name
    /\ op' = "getName"
    /\ UNCHANGED <<tokens, functionType, given>>
    /\ UNCHANGED notFac

\* factory.newFunction(ctx, functionType), on the caller's word or on the word
\* getType returned for the caller's string
CallNewFunction ==
    /\ \/ given = "word" /\ op = "init"
       \/ given = "name" /\ op = "getType" /\ res.ok
    /\ functionType' = IF op = "getType" THEN res.val ELSE functionType
    /\ res' = newFunction(functionType')
    /\ op' = "newFunction"
    /\ UNCHANGED <<tokens, name, given>>
    /\ UNCHANGED notFac

FacNext == CallGetType \/ CallGetName \/ CallNewFunction

SpecFactory == FacInit /\ [][FacNext]_vars

(***************************************************************************)
(* What the factory is expected to compute, from the tokens and nibbles    *)
(* themselves.                                                             *)
(***************************************************************************)
NonZero(x) == x # 0

NibSeq(w) == [k \in 1..8 |-> Nib(w, k - 1)]

\* the word holding the nibbles of ns from bit 28 downward, the rest 0
PackNibs(ns) == FromNibs([i \in 0..7 |-> IF i + 1 <= Len(ns) THEN ns[i + 1] ELSE 0])

\* w with its zero nibbles removed
Compact(w) == PackNibs(SelectSeq(NibSeq(w), NonZero))

ExpectedWord(tks) == PackNibs(SelectSeq([k \in 1..Len(tks) |-> tks[k].id], NonZero))

ValidTokens(tks) == \A k \in 1..Len(tks) : tks[k].id >= 0

NibsIn(w, S) == \A i \in 0..7 : Nib(w, i) \in S

TransformOf(id) ==
    <<"BWTBlockCodec", "BWTS", "LZ4Codec", "SnappyCodec", "RLT", "ZRLT", "MTFT",
      "SBRT", "X86Codec", "TextCodec">>[id]

ExpectedTransforms(w) ==
    LET ns == SelectSeq(NibSeq(w), NonZero)
    IN  IF Len(ns) = 0 THEN <<"NullFunction">>
        ELSE [k \in 1..Len(ns) |-> TransformOf(ns[k])]

\* C1: for a string of 1..8 '+'-separated tokens, each (case-insensitively) a
\* name of the set, getType returns the word whose nibbles from bit 28 downward
\* are the ids of the non-NONE tokens in order, the rest 0; "NONE+BWT" gives the
\* word of "BWT" and "BWT+MTFT+ZRLT" gives 0x17600000 (= 392167424).
C1_GetTypePacksTokens ==
    (op = "getType" /\ given = "name") =>
        /\ (Len(tokens) \in 1..8 /\ ValidTokens(tokens))
               => res = Returned(ExpectedWord(tokens))
        /\ name = <<"B", "W", "T", "+", "M", "T", "F", "T", "+", "Z", "R", "L", "T">>
               => res = Returned(392167424)
        /\ name = <<"N", "O", "N", "E", "+", "B", "W", "T">>
               => res = getType(<<"B", "W", "T">>) /\ res = Returned(Pow2(28))

C1_Witness ==
    /\ op = "getType" /\ given = "name" /\ Len(tokens) = 8 /\ ValidTokens(tokens)
    /\ tokens[1].id = 0 /\ tokens[2].id = 10 /\ tokens[5].id = 0 /\ tokens[8].id = 1
    /\ res.ok /\ Nib(res.val, 0) = 10

\* C2: for a word w whose nibbles are all in 0..10, getType(getName(w)) is w
\* with its zero nibbles removed and the rest packed from bit 28 downward (w
\* itself when no zero nibble precedes a non-zero one); getName(0) is "NONE"
\* and getType("NONE") is 0.
C2_NameRoundTrip ==
    /\ (given = "word" /\ op = "getType" /\ NibsIn(functionType, 0..10)) =>
          /\ res = Returned(Compact(functionType))
          /\ (\A i \in 0..6 : Nib(functionType, i) = 0 => Nib(functionType, i + 1) = 0)
                 => res = Returned(functionType)
    /\ (given = "word" /\ op = "getName" /\ functionType = 0) =>
          res = Returned(<<"N", "O", "N", "E">>)
    /\ (given = "word" /\ op = "getType" /\ functionType = 0) => res = Returned(0)

C2_Witness ==
    /\ given = "word" /\ op = "getType" /\ NibsIn(functionType, 0..10)
    /\ Nib(functionType, 0) = 0 /\ Nib(functionType, 3) = 7 /\ Nib(functionType, 7) = 7
    /\ res.ok /\ res.val # functionType

\* C3: for a word whose nibbles are all in 0..10, leading or interior zero
\* nibbles included, newFunction returns a sequence with no unfilled slot whose
\* instances are the transforms of the non-zero nibbles, most significant
\* first; one null transform when every nibble is 0.
C3_NewFunctionAllSlots ==
    (op = "newFunction" /\ NibsIn(functionType, 0..10)) =>
        res = Returned(ExpectedTransforms(functionType))

\* C4: for a word in which some nibble, at any position, is a reserved id
\* 11..15, newFunction fails with an invalid-argument error.
C4_ReservedRejected ==
    (op = "newFunction" /\ \E i \in 0..7 : Nib(functionType, i) \in 11..15) =>
        (~res.ok /\ res.exc = "IllegalArgumentException")

\* C5: getType fails with an invalid-argument error for every string that
\* splits on '+' into more than 8 tokens or that holds a token outside the name
\* set (an empty token included); for 9 or more tokens the message contains the
\* whole string.
C5_GetTypeRejects ==
    (op = "getType" /\ given = "name"
        /\ (Len(tokens) > 8 \/ tokens = <<>> \/ ~ValidTokens(tokens))) =>
        /\ ~res.ok /\ res.exc = "IllegalArgumentException"
        /\ Len(tokens) >= 9 => res.arg = name

\* C6 as stated: getType returns 0 for the empty string and for every string
\* made only of NONE tokens (up to 8).
C6_EmptyOrNonePacksToZero ==
    (op = "getType" /\ given = "name"
        /\ (name = <<>> \/ (Len(tokens) \in 1..8 /\ \A k \in 1..Len(tokens) : tokens[k].id = 0)))
        => res = Returned(0)

\* C6 amended: getType returns 0 for every string made only of 1..8 NONE tokens
\* (in any letter case); for the empty string it fails with an invalid-argument
\* error.
C6_NonePacksToZero ==
    (op = "getType" /\ given = "name") =>
        /\ (Len(tokens) \in 1..8 /\ \A k \in 1..Len(tokens) : tokens[k].id = 0)
               => res = Returned(0)
        /\ name = <<>> => (~res.ok /\ res.exc = "IllegalArgumentException")

C6_Witness ==
    /\ op = "getType" /\ given = "name" /\ Len(tokens) = 8
    /\ \A k \in 1..8 : tokens[k].id = 0
    /\ res = Returned(0)

(***************************************************************************)
(* ExpGolombDecoder                                                        *)
(***************************************************************************)
\* a byte is kept as its bit pattern 0..255; byte(x) truncates to 8 bits
Byte(x) == x % 256

\* the int a byte promotes to: sign-extended when byte is a signed char
Promote(b, bsigned) == IF bsigned /\ b >= 128 THEN b - 256 ELSE b

\* x ^ -sgn for sgn in {0, 1}: x or its bitwise complement
XorNeg(x, sgn) == IF sgn = 1 THEN -x - 1 ELSE x

RECURSIVE BitsValue(_, _, _)
\* InputBitStream.readBits(n) after pos bits were read: the next n bits, the
\* first read being the most significant
BitsValue(bs, pos, n) ==
    IF n = 0 THEN 0 ELSE 2 * BitsValue(bs, pos, n - 1) + bs[pos + n]

RECURSIVE CountZeros(_, _)
\* while (_bitstream.readBit() == 0): the number of 0 bits read before a 1
\* bit, -1 when the stream ends first
CountZeros(bs, pos) ==
    IF pos >= Len(bs) THEN -1
    ELSE IF bs[pos + 1] = 1 THEN 0
    ELSE LET r == CountZeros(bs, pos + 1) IN IF r < 0 THEN -1 ELSE r + 1

\* a read past the end of the stream
EndOfStream(pos) == [ok |-> FALSE, exc |-> "BitStreamException", pos |-> pos]

\* 1 << log2 on an int, and readBits of more than 31 bits, are outside the
\* integers of the model
MaxShift == 30

Decoded(v, pos) == [ok |-> TRUE, val |-> v, pos |-> pos]

decodeByte_NoBias(bs, pos, sgnMode, bsigned) ==
    IF pos >= Len(bs) THEN EndOfStream(pos)
    ELSE IF bs[pos + 1] = 1 THEN Decoded(0, pos + 1)
    ELSE LET z    == CountZeros(bs, pos + 1)
             log2 == 1 + z
             p2   == pos + 2 + z
         IN  IF z < 0 THEN EndOfStream(Len(bs))
             ELSE IF log2 > MaxShift
                  THEN [ok |-> FALSE, exc |-> "undefined shift", pos |-> p2]
             ELSE IF sgnMode
                  THEN IF p2 + log2 + 1 > Len(bs) THEN EndOfStream(Len(bs))
                       ELSE LET r0  == Byte(BitsValue(bs, p2, log2 + 1))
                                sgn == r0 % 2
                                r1  == Byte((Promote(r0, bsigned) \div 2) + Pow2(log2))
                            IN  Decoded(Byte(XorNeg(Promote(r1, bsigned) - sgn, sgn)),
                                        p2 + log2 + 1)
                  ELSE IF p2 + log2 > Len(bs) THEN EndOfStream(Len(bs))
                       ELSE Decoded(Byte(Pow2(log2) + BitsValue(bs, p2, log2)),
                                    p2 + log2)

decodeByte(bs, pos, sgnMode, bsigned) ==
    IF pos >= Len(bs) THEN EndOfStream(pos)
    ELSE IF bs[pos + 1] = 1 THEN Decoded(0, pos + 1)
    ELSE LET z    == CountZeros(bs, pos + 1)
             log2 == 1 + z
             p2   == pos + 2 + z
         IN  IF z < 0 THEN EndOfStream(Len(bs))
             ELSE IF log2 > MaxShift
                  THEN [ok |-> FALSE, exc |-> "undefined shift", pos |-> p2]
             ELSE IF sgnMode
                  THEN IF p2 + log2 + 1 > Len(bs) THEN EndOfStream(Len(bs))
                       ELSE LET r0  == Byte(BitsValue(bs, p2, log2 + 1))
                                sgn == r0 % 2
                                r1  == Byte((Promote(r0, bsigned) \div 2) + Pow2(log2) - 1)
                            IN  Decoded(Byte(XorNeg(Promote(r1, bsigned) - sgn, sgn)),
                                        p2 + log2 + 1)
                  ELSE IF p2 + log2 > Len(bs) THEN EndOfStream(Len(bs))
                       ELSE Decoded(Byte(Pow2(log2) - 1 + BitsValue(bs, p2, log2)),
                                    p2 + log2)

\* buf[i] = decodeByte(), buf being &block[ptr]; ds holds the block, the stream
\* position and whether an exception is propagating
Store(ds, bs, ptr, i, sgnMode, bsigned) ==
    IF ~ds.ok THEN ds
    ELSE LET d == decodeByte(bs, ds.pos, sgnMode, bsigned)
         IN  IF d.ok
             THEN [ok |-> TRUE, blk |-> [ds.blk EXCEPT ![ptr + i + 1] = d.val],
                   pos |-> d.pos, exc |-> ""]
             ELSE [ok |-> FALSE, blk |-> ds.blk, pos |-> d.pos, exc |-> d.exc]

RECURSIVE Loop8(_, _, _, _, _, _, _)
\* for (uint i = 0; i < len8; i+=8) with its eight stores
Loop8(ds, bs, ptr, i, len8, sgnMode, bsigned) ==
    IF i >= len8 \/ ~ds.ok THEN ds
    ELSE LET s0 == Store(ds, bs, ptr, i,     sgnMode, bsigned)
             s1 == Store(s0, bs, ptr, i + 1, sgnMode, bsigned)
             s2 == Store(s1, bs, ptr, i + 2, sgnMode, bsigned)
             s3 == Store(s2, bs, ptr, i + 3, sgnMode, bsigned)
             s4 == Store(s3, bs, ptr, i + 4, sgnMode, bsigned)
             s5 == Store(s4, bs, ptr, i + 5, sgnMode, bsigned)
             s6 == Store(s5, bs, ptr, i + 6, sgnMode, bsigned)
             s7 == Store(s6, bs, ptr, i + 7, sgnMode, bsigned)
         IN  Loop8(s7, bs, ptr, i + 8, len8, sgnMode, bsigned)

RECURSIVE LoopTail(_, _, _, _, _, _, _)
\* for (uint i = len8; i < len; i++)
LoopTail(ds, bs, ptr, i, len, sgnMode, bsigned) ==
    IF i >= len \/ ~ds.ok THEN ds
    ELSE LoopTail(Store(ds, bs, ptr, i, sgnMode, bsigned), bs, ptr, i + 1, len,
                  sgnMode, bsigned)

\* len & uint(-8)
Len8(len) == len - (len % 8)

decode(blk, bs, pos, ptr, len, sgnMode, bsigned) ==
    LET st0 == [ok |-> TRUE, blk |-> blk, pos |-> pos, exc |-> ""]
        st1 == Loop8(st0, bs, ptr, 0, Len8(len), sgnMode, bsigned)
    IN  LoopTail(st1, bs, ptr, Len8(len), len, sgnMode, bsigned)

(***************************************************************************)
(* The Exp-Golomb encoder of the format: v = 0 is the bit 1; otherwise,     *)
(* with L = floor(log2(v+1)), L-1 zero bits, then 0, then 1, then the low  *)
(* L bits of v+1.  Signed: the magnitude coded so, then the sign bit.      *)
(***************************************************************************)
Log2Floor(x) == CHOOSE L \in 0..8 : Pow2(L) <= x /\ x < Pow2(L + 1)

LowBits(x, n) == [k \in 1..n |-> (x \div Pow2(n - k)) % 2]

EncodeUnsigned(v) ==
    IF v = 0 THEN <<1>>
    ELSE LET L == Log2Floor(v + 1)
         IN  [k \in 1..(L - 1) |-> 0] \o <<0, 1>> \o LowBits(v + 1, L)

EncodeSigned(b) ==
    LET sv == IF b >= 128 THEN b - 256 ELSE b
        m  == IF sv < 0 THEN -sv ELSE sv
    IN  IF sv = 0 THEN <<1>>
        ELSE EncodeUnsigned(m) \o <<IF sv < 0 THEN 1 ELSE 0>>

RECURSIVE EncodeBytes(_, _)
EncodeBytes(bytes, sgnMode) ==
    IF Len(bytes) = 0 THEN <<>>
    ELSE (IF sgnMode THEN EncodeSigned(Head(bytes)) ELSE EncodeUnsigned(Head(bytes)))
         \o EncodeBytes(Tail(bytes), sgnMode)

\* the byte sequences decoded: every single byte, and the byte patterns below
\* repeated to every length up to MaxGolombLen
MaxGolombLen == 17

SampleBytes == {0, 1, 2, 127, 128, 255}

Patterns == { <<a>> : a \in SampleBytes } \cup { <<a, b>> : a, b \in SampleBytes }

Cycle(p, n) == [k \in 1..n |-> p[((k - 1) % Len(p)) + 1]]

GolombInputs ==
    { <<v>> : v \in 0..255 } \cup { Cycle(p, n) : p \in Patterns, n \in 0..MaxGolombLen }

\* the value of a slot of block[] that decode has not written
Untouched == -1

EgInit ==
    /\ FacIdle
    /\ AnsIdle
    /\ BwtIdle
    /\ SymIdle
    /\ HdrIdle
    /\ RunIdle
    /\ RawIdle
    /\ egBytes \in GolombInputs
    /\ egSigned \in BOOLEAN
    /\ byteSigned \in BOOLEAN
    /\ bits = EncodeBytes(egBytes, egSigned)
    /\ bitpos = 0
    /\ blkptr \in {0, 3}
    /\ block = [k \in 1..(blkptr + Len(egBytes) + 1) |-> Untouched]
    /\ egRet = NoResult
    /\ refOut = <<>>
    /\ refPos = 0

\* decoder.decode(block, blkptr, len) with len the number of encoded bytes
CallDecode ==
    /\ egRet = NoResult
    /\ LET ds == decode(block, bits, bitpos, blkptr, Len(egBytes), egSigned, byteSigned)
       IN  /\ block' = ds.blk
           /\ bitpos' = ds.pos
           /\ egRet' = IF ds.ok THEN Returned(Len(egBytes))
                       ELSE [ok |-> FALSE, exc |-> ds.exc, prefix |-> "", arg |-> <<>>]
    /\ UNCHANGED <<egBytes, bits, egSigned, byteSigned, blkptr, refOut, refPos>>
    /\ UNCHANGED notEg

\* one decodeByte() call of a second decoder reading the same bits, made once
\* decode has returned
CallDecodeByte ==
    /\ egRet # NoResult
    /\ Len(refOut) < Len(egBytes)
    /\ LET d == decodeByte(bits, refPos, egSigned, byteSigned)
       IN  /\ d.ok
           /\ refOut' = Append(refOut, d.val)
           /\ refPos' = d.pos
    /\ UNCHANGED <<egBytes, bits, bitpos, egSigned, byteSigned, block, blkptr, egRet>>
    /\ UNCHANGED notEg

EgNext == CallDecode \/ CallDecodeByte

SpecGolomb == EgInit /\ [][EgNext]_vars

OutSlice == [k \in 1..Len(egBytes) |-> block[blkptr + k]]

\* C9: decode applied to the bits the Exp-Golomb encoder emits for a byte
\* sequence of any length writes exactly those bytes to
\* block[blkptr .. blkptr+len-1] (and nothing else), returns len and consumes
\* exactly the emitted bits, in unsigned and in signed mode; the unrolled loop
\* gives what len successive decodeByte calls give.
C9_GolombRoundTrip ==
    (egRet # NoResult) =>
        /\ egRet = Returned(Len(egBytes))
        /\ OutSlice = egBytes
        /\ \A k \in 1..Len(block) :
               (k <= blkptr \/ k > blkptr + Len(egBytes)) => block[k] = Untouched
        /\ bitpos = Len(bits)
        /\ Len(refOut) = Len(egBytes) => (refOut = OutSlice /\ refPos = bitpos)

C9_Witness ==
    /\ egRet = Returned(17) /\ egSigned /\ blkptr = 3
    /\ egBytes[1] = 128 /\ egBytes[2] = 127
    /\ OutSlice = egBytes
    /\ Len(refOut) = 17 /\ refPos = bitpos

(***************************************************************************)
(* ANSRangeEncoder.                                                        *)
(*                                                                         *)
(* The encoder multiplies the int state by the uint64 reciprocal _invFreq: *)
(* a 64-bit product.  A uint64 is kept as six base-4096 digits, least      *)
(* significant first, the sixth holding bits 60..63.                       *)
(***************************************************************************)
Base == 4096

Top64 == 16

\* the conversion of an int to uint64 (a negative int is sign extended)
U64(x) ==
    [i \in 1..6 |->
        IF i = 1 THEN x % Base
        ELSE IF i = 2 THEN (x \div Base) % Base
        ELSE IF i = 3 THEN (x \div (Base * Base)) % Base
        ELSE IF x >= 0 THEN 0
        ELSE IF i = 6 THEN Top64 - 1 ELSE Base - 1]

RECURSIVE Carry(_, _, _)
Carry(cols, i, c) ==
    IF i > 6 THEN <<>>
    ELSE LET t == cols[i] + c
         IN  <<t % (IF i = 6 THEN Top64 ELSE Base)>> \o Carry(cols, i + 1, t \div Base)

RECURSIVE ColSum(_, _, _, _)
ColSum(a, b, k, i) ==
    IF i > k THEN 0 ELSE a[i] * b[k + 1 - i] + ColSum(a, b, k, i + 1)

\* a * b on 64 bits
Mul64(a, b) == Carry([k \in 1..6 |-> ColSum(a, b, k, 1)], 1, 0)

\* a + b on 64 bits
Add64(a, b) == Carry([k \in 1..6 |-> a[k] + b[k]], 1, 0)

\* a >> n on 64 bits, n in 0..63
Shr64(a, n) ==
    LET k == n \div 12
        r == n % 12
        d(j) == IF j <= 6 THEN a[j] ELSE 0
    IN  [i \in 1..6 |-> (d(i + k) \div Pow2(r)) + (d(i + k + 1) % Pow2(r)) * Pow2(12 - r)]

\* a / d on 64 bits, for a divisor 0 < d < 2^16: long division from the top digit
RECURSIVE DivDigits(_, _, _, _)
DivDigits(a, d, i, rem) ==
    IF i = 0 THEN <<>>
    ELSE LET cur == rem * Base + a[i]
         IN  DivDigits(a, d, i - 1, cur % d) \o <<cur \div d>>

Div64(a, d) == DivDigits(a, d, 6, 0)

\* uint64(1) << n
One64Shl(n) == [i \in 1..6 |-> IF i = (n \div 12) + 1 THEN Pow2(n % 12) ELSE 0]

\* a & uint64(0xFFFFFFFF)
Mask32(a) == [i \in 1..6 |-> IF i <= 2 THEN a[i] ELSE IF i = 3 THEN a[3] % 256 ELSE 0]

\* int(a): the low 32 bits as a signed value
ToInt(a) ==
    LET hi == a[3] % 256
    IN  (IF hi >= 128 THEN hi - 256 ELSE hi) * (Base * Base) + a[2] * Base + a[1]

\* ANSRangeEncoder::ANS_TOP.  reset makes xMax = ((ANS_TOP >> lr) << 8) * freq
\* "a positive int32" by taking one off a frequency of 2^lr: ANS_TOP << 8 is
\* 2^31.
ANS_TOP == 8388608

\* the default constructed ANSEncSymbol
NoSymbol ==
    [xMax |-> 0, cmplFreq |-> 0, invFreq |-> U64(0), invShift |-> 0, bias |-> 0]

reset_ShiftOff(cumFreq, freq, lgRange) ==
    LET f == IF freq >= Pow2(lgRange) THEN Pow2(lgRange) - 1 ELSE freq
        shift == CHOOSE sh \in 0..16 : f <= Pow2(sh) /\ \A t \in 0..(sh - 1) : f > Pow2(t)
    IN  [xMax     |-> ((ANS_TOP \div Pow2(lgRange)) * 256) * f,
         cmplFreq |-> Pow2(lgRange) - f,
         invFreq  |-> IF f < 2 THEN Mask32(U64(-1))
                      ELSE Mask32(Div64(Add64(One64Shl(shift + 31), U64(f - 1)), f)),
         invShift |-> IF f < 2 THEN 32 ELSE 32 + shift,
         bias     |-> IF f < 2 THEN cumFreq + Pow2(lgRange) - 1 ELSE cumFreq]

\* ANSEncSymbol::reset
reset(cumFreq, freq, lgRange) ==
    LET f == IF freq >= Pow2(lgRange) THEN Pow2(lgRange) - 1 ELSE freq
        shift == CHOOSE s \in 0..16 : f <= Pow2(s) /\ \A t \in 0..(s - 1) : f > Pow2(t)
    IN  [xMax     |-> ((ANS_TOP \div Pow2(lgRange)) * 256) * f,
         cmplFreq |-> Pow2(lgRange) - f,
         invFreq  |-> IF f < 2 THEN Mask32(U64(-1))
                      ELSE Mask32(Div64(Add64(One64Shl(shift + 31), U64(f - 1)), f)),
         invShift |-> IF f < 2 THEN 32 ELSE 32 + shift - 1,
         bias     |-> IF f < 2 THEN cumFreq + Pow2(lgRange) - 1 ELSE cumFreq]

\* the renormalisation loop: while (st >= sym._xMax) { *p-- = byte(st); st >>= 8; }
\* buf is _buffer[p+1 .. p0].  The loop ends unless the threshold is not
\* positive and the state is not below it.
NeverEnds(state, xMax) == xMax <= 0 /\ state >= xMax

Renormalize_Once(state, xMax, buf) ==
    IF state >= xMax /\ ~NeverEnds(state, xMax)
    THEN [st |-> state \div 256, buf |-> <<state % 256>> \o buf]
    ELSE [st |-> state, buf |-> buf]

RECURSIVE Renormalize(_, _, _)
Renormalize(state, xMax, buf) ==
    IF state >= xMax /\ ~NeverEnds(state, xMax)
    THEN Renormalize(state \div 256, xMax, <<state % 256>> \o buf)
    ELSE [st |-> state, buf |-> buf]

NextState_NoBias(state, sym) ==
    LET q == Shr64(Mul64(U64(state), sym.invFreq), sym.invShift)
    IN  ToInt(Add64(U64(state), Mul64(q, U64(sym.cmplFreq))))

\* q = (st * sym._invFreq) >> sym._invShift; st = int(st + sym._bias + q * sym._cmplFreq)
NextState(state, sym) ==
    LET q == Shr64(Mul64(U64(state), sym.invFreq), sym.invShift)
    IN  ToInt(Add64(U64(state + sym.bias), Mul64(q, U64(sym.cmplFreq))))

\* The byte values of the blocks given to the encoder.  The entries of
\* _freqs, _alphabet and _symbols of any other byte value are never written
\* to a value other than zero and never read, and are left out.
AnsBytes == {0, 65, 255}

Total == 256

\* the contexts k of 0 .. 255 * _order that can hold a count
Contexts(ord) == IF ord = 0 THEN {0} ELSE AnsBytes

\* Global::computeHistogram(block, end, _freqs, _order == 0, true): order 0
\* counts the bytes; order 1 counts each byte in the table of the byte before
\* it, the first byte in the table of context 0.  freqs[k][256] is the total.
computeHistogram(data, ord) ==
    LET ctx(i) == IF ord = 0 \/ i = 1 THEN 0 ELSE data[i - 1]
    IN  [k \in Contexts(ord) |->
            [s \in AnsBytes \cup {Total} |->
                Cardinality({i \in 1..Len(data) :
                                 ctx(i) = k /\ (s = Total \/ data[i] = s)})]]

RECURSIVE SumOver(_, _)
SumOver(f, S) ==
    IF S = {} THEN 0
    ELSE LET s == CHOOSE x \in S : TRUE IN f[s] + SumOver(f, S \ {s})

\* the share of a count c of total in scale, rounded to the nearer of floor
\* and ceiling, and at least 1
Rounded(c, total, scale) ==
    IF c = 0 THEN 0
    ELSE LET sf == c * scale
             q == sf \div total
         IN  IF sf <= total THEN 1
             ELSE IF (q + 1) * total - sf < sf - q * total THEN q + 1 ELSE q

\* EntropyUtils::normalizeFrequencies(f, alphabet, 256, f[256], scale): the
\* zero counts stay zero, the others are rounded proportionally and the
\* largest takes the residual, so that they sum to scale
normalizeFrequencies(f, total, scale) ==
    LET present == {s \in AnsBytes : f[s] # 0}
        g == [s \in AnsBytes |-> Rounded(f[s], total, scale)]
        largest == CHOOSE s \in present :
                       \A t \in present : g[t] < g[s] \/ (g[t] = g[s] /\ s <= t)
    IN  IF total = 0 \/ present = {} THEN [f |-> f, alphabetSize |-> 0]
        ELSE [alphabetSize |-> Cardinality(present),
              f |-> [s \in DOMAIN f |->
                        IF s = Total THEN f[Total]
                        ELSE IF Cardinality(present) = 1 THEN (IF s \in present THEN scale ELSE 0)
                        ELSE IF s = largest THEN g[s] - (SumOver(g, AnsBytes) - scale)
                        ELSE g[s]]]

\* the symbols of nonzero frequency in increasing order: curAlphabet
RECURSIVE Sorted(_)
Sorted(S) ==
    IF S = {} THEN <<>>
    ELSE LET m == CHOOSE x \in S : \A y \in S : x <= y IN <<m>> \o Sorted(S \ {m})

\* one write to _bitstream: the call that made it, for the context k (-1 for
\* none), of n bits (-1 where the callee decides), in the chunk at startChunk
Write(call, k, val, n, chunk) ==
    [call |-> call, k |-> k, val |-> val, n |-> n, chunk |-> chunk]

\* the smallest l >= from with 2^l > v
RECURSIVE LogAbove(_, _)
LogAbove(from, v) == IF Pow2(from) <= v THEN LogAbove(from + 1, v) ELSE from

RECURSIVE MaxFreq(_, _, _, _)
MaxFreq(frequencies, alphabet, j, endj) ==
    IF j >= endj THEN 0
    ELSE LET m == MaxFreq(frequencies, alphabet, j + 1, endj)
             v == frequencies[alphabet[j + 1]]
         IN  IF v > m THEN v ELSE m

\* the frequency groups of encodeHeader, from index i of the alphabet
RECURSIVE Groups(_, _, _, _, _, _, _)
Groups(k, alphabet, frequencies, i, chkSize, llr, chunk) ==
    IF i >= Len(alphabet) THEN <<>>
    ELSE LET endj == IF i + chkSize < Len(alphabet) THEN i + chkSize ELSE Len(alphabet)
             logMax == LogAbove(1, MaxFreq(frequencies, alphabet, i, endj))
         IN  <<Write("logMax", k, logMax - 1, llr, chunk)>>
             \o [j \in 1..(endj - i) |->
                    Write("freq", k, frequencies[alphabet[i + j]], logMax, chunk)]
             \o Groups(k, alphabet, frequencies, i + chkSize, chkSize, llr, chunk)

\* ANSRangeEncoder::encodeHeader: the writes it makes
encodeHeader(k, alphabet, frequencies, lgRange, chunk) ==
    LET chkSize == IF Len(alphabet) >= 64 THEN 12 ELSE 6
        llr == LogAbove(3, lgRange)
    IN  <<Write("alphabet", k, alphabet, -1, chunk)>>
        \o (IF Len(alphabet) = 0 THEN <<>>
            ELSE Groups(k, alphabet, frequencies, 1, chkSize, llr, chunk))

\* the cumulated frequency of s: sum in the loop of updateFrequencies
CumFreq(f, s) == SumOver(f, {t \in AnsBytes : t < s})

\* the body of the loop of updateFrequencies for a context k that holds counts
UpdateContext(k, f, symb, lgRange, chunk) ==
    LET nf == normalizeFrequencies(f, f[Total], Pow2(lgRange))
        alphabet == IF nf.alphabetSize = 0 THEN <<>>
                    ELSE Sorted({s \in AnsBytes : nf.f[s] # 0})
    IN  [f |-> nf.f,
         symb |-> [s \in AnsBytes |->
                      IF nf.alphabetSize > 0 /\ nf.f[s] # 0
                      THEN reset(CumFreq(nf.f, s), nf.f[s], lgRange)
                      ELSE symb[s]],
         writes |-> encodeHeader(k, alphabet, nf.f, lgRange, chunk)]

\* the writes of the contexts from k to endk - 1, in the order of the loop; a
\* context that holds no count has its empty alphabet written and no more
RECURSIVE HeaderWrites(_, _, _, _)
HeaderWrites(upd, k, endk, chunk) ==
    LET counted == {c \in DOMAIN upd : c >= k /\ c < endk}
        next == IF counted = {} THEN endk
                ELSE CHOOSE c \in counted : \A e \in counted : c <= e
        empty == [j \in 1..(next - k) |-> encodeHeader(k + j - 1, <<>>, <<>>, 0, chunk)[1]]
    IN  IF k >= endk THEN <<>>
        ELSE IF next = endk THEN empty
        ELSE empty \o upd[next].writes \o HeaderWrites(upd, next + 1, endk, chunk)

\* ANSRangeEncoder::updateFrequencies(frequencies, lr)
updateFrequencies(frequencies, symb, ord, lgRange, chunk) ==
    LET upd == [k \in Contexts(ord) |->
                   UpdateContext(k, frequencies[k], symb[k], lgRange, chunk)]
    IN  [freqs |-> [k \in Contexts(ord) |-> upd[k].f],
         symbols |-> [k \in Contexts(ord) |-> upd[k].symb],
         writes |-> <<Write("lr", -1, lgRange - 8, 3, chunk)>>
                    \o HeaderWrites(upd, 0, 255 * ord + 1, chunk)]

\* ANSRangeEncoder::rebuildStatistics(block, end, lr)
rebuildStatistics(data, symb, ord, lgRange, chunk) ==
    updateFrequencies(computeHistogram(data, ord), symb, ord, lgRange, chunk)

\* the loop of encode that lowers the log range for a small chunk
RECURSIVE LowerLogRange(_, _)
LowerLogRange(l, sizeOfChunk) ==
    IF l > 8 /\ Pow2(l) > sizeOfChunk THEN LowerLogRange(l - 1, sizeOfChunk) ELSE l

(***************************************************************************)
(* The blocks and the encoders.  A chunk reaches a log range above 8 only  *)
(* with 512 bytes or more, and a block has a second chunk only with more   *)
(* than 1024 bytes, so a few long blocks stand beside the short ones.      *)
(***************************************************************************)
MaxAnsLen == 12

LongLen == 1025

AnsPatterns ==
    { <<a>> : a \in AnsBytes } \cup { <<a, b>> : a, b \in AnsBytes }
    \cup { <<0, 0, 65>>, <<0, 0, 65, 65>> }

ShortBlocks == { Cycle(q, n) : q \in AnsPatterns, n \in 0..MaxAnsLen }

\* a long block in which every byte value is followed by two byte values or
\* more, so that no table of order 1 holds a single symbol
Mixed(n) == Cycle(<<0, 0, 0, 0, 0, 65, 65, 0, 255, 255>>, n)

RarePos == 100

\* a long block of 0 and 65 with a single 255: a count that normalises to 1
Rare(n) == [i \in 1..n |-> IF i = RarePos THEN 255 ELSE IF i % 3 = 0 THEN 65 ELSE 0]

LongBlocks ==
    { Mixed(LongLen), Rare(LongLen), Cycle(<<65>>, LongLen), Mixed(LongLen \div 2) }

\* the arguments of the constructor that it accepts, and the block
AnsInputs ==
    { [block |-> b, chunkSize |-> 0, logRange |-> l] :
          b \in ShortBlocks, l \in {8, 16} }
    \cup { [block |-> b, chunkSize |-> c, logRange |-> l] :
          b \in LongBlocks, c \in {0, 1024}, l \in {9, 16} }

\* ANSRangeEncoder::ANSRangeEncoder
AnsInit ==
    /\ FacIdle
    /\ EgIdle
    /\ BwtIdle
    /\ SymIdle
    /\ HdrIdle
    /\ RunIdle
    /\ RawIdle
    /\ order \in {0, 1}
    /\ \E c \in AnsInputs :
           /\ (c.chunkSize = 0 \/ c.chunkSize >= 1024)
           /\ c.logRange >= 8 /\ c.logRange <= 16
           /\ ansBlock = c.block
           /\ chunkSize = c.chunkSize
           /\ logRange = c.logRange
    /\ freqs = [k \in Contexts(order) |-> [s \in AnsBytes \cup {Total} |-> 0]]
    /\ symbols = [k \in Contexts(order) |-> [s \in AnsBytes |-> NoSymbol]]
    /\ bufferSize = 0
    /\ startChunk = 0 /\ sizeChunk = 0 /\ lr = 8 /\ st = 0 /\ idx = 0 /\ prv = 0
    /\ buffer = <<>> /\ bitstream = <<>> /\ ansPc = "idle" /\ ansRet = NoResult
    /\ dec = <<>> /\ decM = <<>> /\ coded = <<>>

\* &block[startChunk] for sizeChunk bytes
Chunk(from, size) == [i \in 1..size |-> ansBlock[from + i]]

\* ANSRangeEncoder::encode(block, 0, len) up to its loop
CallEncode ==
    /\ ansPc = "idle"
    /\ IF Len(ansBlock) = 0
       THEN /\ ansRet' = Returned(0)
            /\ ansPc' = "returned"
            /\ UNCHANGED bufferSize
       ELSE LET sz == IF chunkSize = 0 THEN Len(ansBlock) ELSE chunkSize
            IN  /\ bufferSize' = IF bufferSize < sz + (sz \div 8)
                                 THEN sz + (sz \div 8) ELSE bufferSize
                /\ ansPc' = "loop"
                /\ UNCHANGED ansRet
    /\ startChunk' = 0
    /\ UNCHANGED <<order, logRange, chunkSize, ansBlock, freqs, symbols, sizeChunk,
                   lr, st, idx, prv, buffer, bitstream, dec, decM, coded>>
    /\ UNCHANGED notAns

\* one turn of the loop of encode, up to the first symbol of encodeChunk:
\* sizeChunk, lr, rebuildStatistics and the start of encodeChunk
ChunkStart ==
    /\ ansPc = "loop"
    /\ startChunk < Len(ansBlock)
    /\ LET sz == IF chunkSize = 0 THEN Len(ansBlock) ELSE chunkSize
           size == IF startChunk + sz < Len(ansBlock) THEN sz
                   ELSE Len(ansBlock) - startChunk
           l == LowerLogRange(logRange, size)
           data == Chunk(startChunk, size)
           u == rebuildStatistics(data, symbols, order, l, startChunk)
       IN  /\ sizeChunk' = size
           /\ lr' = l
           /\ freqs' = u.freqs
           /\ symbols' = u.symbols
           /\ bitstream' = bitstream \o u.writes
           /\ st' = ANS_TOP
           /\ buffer' = <<>>
           /\ idx' = IF order = 0 THEN size - 1 ELSE size - 2
           /\ prv' = IF order = 0 THEN prv ELSE data[size]
           /\ ansPc' = IF order = 1 /\ size < 2 THEN "last" ELSE "symbols"
    /\ UNCHANGED <<order, logRange, chunkSize, bufferSize, ansBlock, startChunk,
                   ansRet, dec, decM>>
    /\ coded' = <<>>
    /\ UNCHANGED notAns

\* the renormalisation and the update of the state for the symbol sym; a
\* renormalisation that never ends, or that writes below _buffer[0], leaves
\* the encoder at "overrun"
Encoded(sym, after) ==
    LET r == Renormalize(st, sym.xMax, buffer)
    IN  IF NeverEnds(r.st, sym.xMax) \/ Len(r.buf) > bufferSize
        THEN /\ ansPc' = "overrun"
             /\ UNCHANGED <<st, buffer>>
        ELSE /\ st' = NextState(r.st, sym)
             /\ buffer' = r.buf
             /\ ansPc' = after

Lookup_Table0(symb, k, s) == [sym |-> symb[0][s], ctx |-> 0, byte |-> s]

\* _symbols[(k << 8) | s]: the symbol of the byte s in the table of context k
Lookup(symb, k, s) == [sym |-> symb[k][s], ctx |-> k, byte |-> s]

\* the byte at position pos of the chunk has been coded with e; last tells
\* the code after the loop, "Last symbol", from the loop
Coding(pos, e, last) == [pos |-> pos, ctx |-> e.ctx, byte |-> e.byte, last |-> last]

\* one turn of the loop of encodeChunk over the symbols, last byte first
EncodeSymbol ==
    /\ ansPc = "symbols"
    /\ idx >= 0
    /\ LET data == Chunk(startChunk, sizeChunk)
           cur == data[idx + 1]
           e == IF order = 0 THEN Lookup(symbols, 0, cur) ELSE Lookup(symbols, cur, prv)
       IN  /\ Encoded(e.sym, IF idx > 0 THEN "symbols"
                             ELSE IF order = 0 THEN "flush" ELSE "last")
           /\ prv' = IF order = 0 THEN prv ELSE cur
           /\ coded' = Coding(IF order = 0 THEN idx ELSE idx + 1, e, FALSE)
    /\ idx' = idx - 1
    /\ UNCHANGED <<order, logRange, chunkSize, bufferSize, ansBlock, freqs, symbols,
                   startChunk, sizeChunk, lr, bitstream, ansRet, dec, decM>>
    /\ UNCHANGED notAns

\* order 1, "Last symbol": the first byte of the chunk, with _symbols[prv]
LastSymbol ==
    /\ ansPc = "last"
    /\ LET e == Lookup(symbols, 0, prv)
       IN  /\ Encoded(e.sym, "flush")
           /\ coded' = Coding(0, e, TRUE)
    /\ UNCHANGED <<order, logRange, chunkSize, bufferSize, ansBlock, freqs, symbols,
                   startChunk, sizeChunk, lr, idx, prv, bitstream, ansRet, dec, decM>>
    /\ UNCHANGED notAns

Flush_StateLast ==
    <<Write("varint", -1, Len(buffer), -1, startChunk),
      Write("bytes", -1, buffer, 8 * Len(buffer), startChunk),
      Write("state", -1, st, 32, startChunk)>>

\* the end of encodeChunk: writeVarInt(p0 - p), writeBits(st, 32),
\* writeBits(p + 1, 8 * (p0 - p))
Flush ==
    <<Write("varint", -1, Len(buffer), -1, startChunk),
      Write("state", -1, st, 32, startChunk),
      Write("bytes", -1, buffer, 8 * Len(buffer), startChunk)>>

\* a decoder as it starts on the chunk: the final state read, no byte read
DecoderAt(x) == [st |-> x, pos |-> 1, out |-> <<>>, ok |-> TRUE]

WriteChunk ==
    /\ ansPc = "flush"
    /\ bitstream' = bitstream \o Flush
    /\ dec' = DecoderAt(st)
    /\ decM' = DecoderAt(st)
    /\ ansPc' = "decode"
    /\ UNCHANGED <<order, logRange, chunkSize, bufferSize, ansBlock, freqs, symbols,
                   startChunk, sizeChunk, lr, st, idx, prv, buffer, ansRet, coded>>
    /\ UNCHANGED notAns

(***************************************************************************)
(* The decoder of a chunk: the symbol at slot st & (2^lr - 1) of the       *)
(* decoding table, st <- freq * (st >> lr) + (st & mask) - cumFreq, then   *)
(* bytes read while st < ANS_TOP.  The frequencies are those of the        *)
(* header; with mirror the decoder takes one off a frequency of 2^lr as    *)
(* ANSEncSymbol::reset does.                                               *)
(***************************************************************************)
RECURSIVE Refill(_, _)
Refill(x, pos) ==
    IF x < ANS_TOP /\ pos <= Len(buffer)
    THEN Refill(x * 256 + buffer[pos], pos + 1)
    ELSE [st |-> x, pos |-> pos]

NoByte == -1

\* one symbol decoded: the context is the byte decoded before, 0 for the first
DecodeSymbol(d, mirror) ==
    LET k == IF order = 0 \/ d.out = <<>> THEN 0 ELSE d.out[Len(d.out)]
        slot == d.st % Pow2(lr)
        hit == IF k \in DOMAIN freqs
               THEN {s \in AnsBytes : /\ CumFreq(freqs[k], s) <= slot
                                      /\ slot < CumFreq(freqs[k], s) + freqs[k][s]}
               ELSE {}
    IN  IF ~d.ok \/ hit = {}
        THEN [d EXCEPT !.ok = FALSE, !.out = Append(@, NoByte)]
        ELSE LET s == CHOOSE x \in hit : TRUE
                 f == IF mirror /\ freqs[k][s] >= Pow2(lr) THEN Pow2(lr) - 1
                      ELSE freqs[k][s]
                 x == f * (d.st \div Pow2(lr)) + slot - CumFreq(freqs[k], s)
                 r == Refill(x, d.pos)
             IN  [st |-> r.st, pos |-> r.pos, out |-> Append(d.out, s),
                  ok |-> r.st >= ANS_TOP]

\* both decoders decode their next byte of the chunk
DecodeStep ==
    /\ ansPc = "decode"
    /\ Len(dec.out) < sizeChunk
    /\ dec' = DecodeSymbol(dec, FALSE)
    /\ decM' = DecodeSymbol(decM, TRUE)
    /\ UNCHANGED <<order, logRange, chunkSize, bufferSize, ansBlock, freqs, symbols,
                   startChunk, sizeChunk, lr, st, idx, prv, buffer, bitstream, ansPc,
                   ansRet, coded>>
    /\ UNCHANGED notAns

\* the end of a turn of the loop of encode: startChunk += sizeChunk
NextChunk ==
    /\ ansPc = "decode"
    /\ Len(dec.out) = sizeChunk
    /\ startChunk' = startChunk + sizeChunk
    /\ ansPc' = "loop"
    /\ UNCHANGED <<order, logRange, chunkSize, bufferSize, ansBlock, freqs, symbols,
                   sizeChunk, lr, st, idx, prv, buffer, bitstream, ansRet, dec, decM,
                   coded>>
    /\ UNCHANGED notAns

\* encode leaves its loop and returns len
ReturnEncode ==
    /\ ansPc = "loop"
    /\ startChunk >= Len(ansBlock)
    /\ ansRet' = Returned(Len(ansBlock))
    /\ ansPc' = "returned"
    /\ UNCHANGED <<order, logRange, chunkSize, bufferSize, ansBlock, freqs, symbols,
                   startChunk, sizeChunk, lr, st, idx, prv, buffer, bitstream, dec, decM,
                   coded>>
    /\ UNCHANGED notAns

AnsNext ==
    \/ CallEncode
    \/ ChunkStart
    \/ EncodeSymbol
    \/ LastSymbol
    \/ WriteChunk
    \/ DecodeStep
    \/ NextChunk
    \/ ReturnEncode

SpecANS == AnsInit /\ [][AnsNext]_vars

\* the chunk has been encoded, written and decoded
ChunkDecoded == ansPc = "decode" /\ Len(dec.out) = sizeChunk

\* a table of the chunk holds a single symbol, whose frequency 2^lr the
\* encoder lowers to 2^lr - 1
Clamped == \E k \in DOMAIN freqs : \E s \in AnsBytes : freqs[k][s] >= Pow2(lr)

RoundTrip(d) == d.out = Chunk(startChunk, sizeChunk) /\ d.st = ANS_TOP

MayFollow(before, w) ==
    LET endk == 255 * order + 1
        lastContext == before.k = endk - 1
    IN  CASE w.call = "lr" -> FALSE
          [] w.call = "alphabet" ->
                 \/ before.call = "lr" /\ w.k = 0
                 \/ before.call \in {"alphabet", "freq"} /\ w.k = before.k + 1
          [] w.call = "logMax" ->
                 before.call \in {"alphabet", "freq"} /\ w.k = before.k
          [] w.call = "freq" ->
                 before.call \in {"logMax", "freq"} /\ w.k = before.k
          [] w.call = "varint" ->
                 before.call \in {"alphabet", "freq"} /\ lastContext
          [] w.call = "state" -> before.call = "varint" /\ w.n = 32
          [] w.call = "bytes" ->
                 /\ before.call = "state"
                 /\ w.n = 8 * Len(w.val)
          [] OTHER -> FALSE

\* the count written before the state is the number of bytes written after it
CountMatches(j) ==
    bitstream[j].call = "bytes" =>
        /\ j > 2
        /\ bitstream[j - 2].call = "varint"
        /\ bitstream[j - 2].val = Len(bitstream[j].val)

\* C8: in every chunk the writes are the 3-bit lr field, then for each context
\* k in increasing order its alphabet and then its frequency groups, then the
\* varint count, the 32-bit state and exactly that count of bytes; a chunk
\* starts only once the chunk before it has written its bytes.
C8_WriteOrder ==
    /\ \A j \in 1..Len(bitstream) :
           LET w == bitstream[j]
           IN  /\ IF j = 1 THEN w.call = "lr" /\ w.chunk = 0
                  ELSE IF bitstream[j - 1].chunk # w.chunk
                  THEN /\ w.call = "lr"
                       /\ bitstream[j - 1].call = "bytes"
                       /\ bitstream[j - 1].chunk < w.chunk
                  ELSE MayFollow(bitstream[j - 1], w)
               /\ w.call = "lr" => w.n = 3
               /\ CountMatches(j)
    /\ (ansPc = "returned" /\ Len(ansBlock) > 0) =>
           /\ bitstream # <<>>
           /\ bitstream[Len(bitstream)].call = "bytes"
           /\ LET sz == IF chunkSize = 0 THEN Len(ansBlock) ELSE chunkSize
              IN  { bitstream[j].chunk : j \in 1..Len(bitstream) }
                      = { c \in 0..(Len(ansBlock) - 1) : c % sz = 0 }

C8_Witness ==
    /\ ansPc = "returned" /\ order = 1 /\ ansRet = Returned(Len(ansBlock))
    /\ \E j \in 1..Len(bitstream) : bitstream[j].chunk > 0 /\ bitstream[j].call = "bytes"
    /\ \E j \in 1..Len(bitstream) :
           bitstream[j].call = "bytes" /\ Len(bitstream[j].val) > 0
    /\ \E j \in 1..Len(bitstream) : bitstream[j].call = "freq" /\ bitstream[j].k = 255

\* a byte of the chunk of an order 1 encoder has been coded
Order1Coded == order = 1 /\ ansPc \in {"symbols", "last", "flush"} /\ DOMAIN coded # {}

\* C12 as stated: in order 1 the last byte d[n-1] of the chunk is the one byte
\* coded with the table indexed by the byte alone, and every earlier byte
\* d[i], i < n-1, is coded with the table of its previous byte d[i-1]
C12_LastByteIsAnchor ==
    Order1Coded =>
        LET d == Chunk(startChunk, sizeChunk)
            n == sizeChunk
        IN  /\ coded.byte = d[coded.pos + 1]
            /\ coded.last <=> coded.pos = n - 1
            /\ coded.pos < n - 1 => /\ coded.pos >= 1
                                    /\ coded.ctx = d[coded.pos]

\* C12: in order 1 the bytes of the chunk are coded from the last to the
\* first, one time each; the first byte d[0] is the one byte coded after the
\* loop with the table indexed by the byte alone, which is the table of the
\* context 0, and every later byte d[i], i >= 1, the last one included, is
\* coded in the loop with the table of its previous byte d[i-1]
C12_FirstByteIsAnchor ==
    /\ Order1Coded =>
           LET d == Chunk(startChunk, sizeChunk)
           IN  /\ coded.pos \in 0..(sizeChunk - 1)
               /\ coded.byte = d[coded.pos + 1]
               /\ coded.last <=> coded.pos = 0
               /\ coded.last => coded.ctx = 0
               /\ coded.pos >= 1 => coded.ctx = d[coded.pos]
               /\ ansPc = "symbols" => coded.pos = idx + 2
               /\ ansPc = "last" => coded.pos = 1
               /\ ansPc = "flush" => coded.pos = 0
    /\ order = 1 /\ ansPc \in {"symbols", "last", "flush"} /\ DOMAIN coded = {} =>
           \/ ansPc = "symbols" /\ idx = sizeChunk - 2
           \/ ansPc = "last" /\ sizeChunk = 1

\* a chunk of three bytes or more is coded to its end in order 1; the first
\* byte, not 0 and not the last byte, was coded after the loop
C12_Witness ==
    /\ Order1Coded /\ ansPc = "flush" /\ sizeChunk >= 3
    /\ coded.last /\ coded.pos = 0 /\ coded.ctx = 0
    /\ LET d == Chunk(startChunk, sizeChunk)
       IN  /\ coded.byte = d[1]
           /\ d[1] # 0 /\ d[1] # d[sizeChunk] /\ d[2] # d[1]

(***************************************************************************)
(* BWT: the forward transform and the chunked inverse.  Positions of the   *)
(* block, of the suffix array and of the output count from 0.              *)
(***************************************************************************)
BWT_MAX_CHUNKS == 8

\* suffix i of B sorts before suffix j (i # j): the suffix that runs out first
\* is the lower one, as with the guard that ends the block
RECURSIVE SuffixBelow(_, _, _)
SuffixBelow(B, i, j) ==
    IF i >= Len(B) THEN TRUE
    ELSE IF j >= Len(B) THEN FALSE
    ELSE IF B[i + 1] # B[j + 1] THEN B[i + 1] < B[j + 1]
    ELSE SuffixBelow(B, i + 1, j + 1)

\* the position of suffix i in the suffix array
PositionInSA(B, i) ==
    Cardinality({j \in 0..(Len(B) - 1) : j # i /\ SuffixBelow(B, j, i)})

SuffixArray(B) ==
    [r \in 0..(Len(B) - 1) |-> CHOOSE i \in 0..(Len(B) - 1) : PositionInSA(B, i) = r]

\* BWT::forward: the output BWT[i] = input[SA[i] - 1], the byte before suffix 0
\* being the last one, and a primary index for every chunk: that of chunk 0 is
\* the position of suffix 0, that of chunk c the position of the suffix at
\* which chunk c starts
forward(B, nChunks) ==
    LET n == Len(B)
        SA == SuffixArray(B)
        step == n \div nChunks
    IN  [output |-> [r \in 1..n |-> B[((SA[r - 1] + n - 1) % n) + 1]],
         primaryIndexes |-> [c \in 0..(BWT_MAX_CHUNKS - 1) |->
                                IF c < nChunks THEN PositionInSA(B, c * step) ELSE 0]]

\* the first and the last output position of chunk c
ChunkFirst(c, step) == c * step

ChunkLast(c, step, nChunks, n) == IF c = nChunks - 1 THEN n - 1 ELSE (c + 1) * step - 1

ChunkSeed_Own(c, nChunks, pIdx) == pIdx[c]

\* the position at which the walk of chunk c starts: its last byte is the
\* byte before the suffix at which the next chunk starts, and the last byte
\* of the block is held at the primary index of chunk 0
ChunkSeed(c, nChunks, pIdx) == IF c = nChunks - 1 THEN pIdx[0] ELSE pIdx[c + 1]

\* inverse: the entry of position i, (rank of the byte among its equals << 8)
\* | byte, the byte at the primary index being counted first
Packed(L, pIdx, i) ==
    LET v == L[i + 1]
        rank == IF i = pIdx THEN 0
                ELSE Cardinality({j \in 0..(i - 1) : j # pIdx /\ L[j + 1] = v})
                     + (IF L[pIdx + 1] = v THEN 1 ELSE 0)
    IN  rank * 256 + v

PackedBuffer(L, pIdx) == [i \in 0..(Len(L) - 1) |-> Packed(L, pIdx, i)]

\* inverse: the cumulative histogram
Buckets(L) == [c \in 0..255 |-> Cardinality({i \in 1..Len(L) : L[i] < c})]

NoPtr == -1

\* the chunk tasks of inverse: min(jobs, chunks) tasks share the chunks, each
\* taking a run of them
NbTasks(nJobs, nChunks) == IF nJobs < nChunks THEN nJobs ELSE nChunks

FirstChunkOf(t, nJobs, nChunks) ==
    LET nb == NbTasks(nJobs, nChunks)
        q == nChunks \div nb
        r == nChunks % nb
    IN  t * q + (IF t < r THEN t ELSE r)

NewTasks(n, nJobs, nChunks, pIdx) ==
    LET step == n \div nChunks
    IN  [t \in 0..(NbTasks(nJobs, nChunks) - 1) |->
            LET sc == FirstChunkOf(t, nJobs, nChunks)
            IN  [pIdx0 |-> ChunkSeed(sc, nChunks, pIdx),
                 startIdx |-> ChunkLast(sc, step, nChunks, n),
                 step |-> step,
                 startChunk |-> sc,
                 endChunk |-> FirstChunkOf(t + 1, nJobs, nChunks),
                 chunk |-> sc,
                 idx |-> ChunkLast(sc, step, nChunks, n),
                 ptr |-> NoPtr,
                 done |-> FALSE]]

MaxBwtLen == 4

BwtBytes == {97, 98}

Mississippi == <<109, 105, 115, 115, 105, 115, 115, 105, 112, 112, 105>>

RECURSIVE BlocksOfLen(_)
BlocksOfLen(n) ==
    IF n = 0 THEN {<<>>}
    ELSE { Append(b, v) : b \in BlocksOfLen(n - 1), v \in BwtBytes }

BwtBlocks ==
    UNION { BlocksOfLen(n) : n \in 1..MaxBwtLen }
    \cup { Mississippi, <<98, 97, 98, 97, 98, 97, 98, 97>>, <<97, 97, 97, 97, 97, 97, 97, 97, 97>> }

\* the state after forward on the block, and a BWT with the primary indexes set
BwtInit ==
    /\ FacIdle
    /\ EgIdle
    /\ AnsIdle
    /\ SymIdle
    /\ HdrIdle
    /\ RunIdle
    /\ RawIdle
    /\ bwtBlock \in BwtBlocks
    /\ jobs \in {1, 2, 3, BWT_MAX_CHUNKS}
    /\ chunks \in {1, 2, 4, BWT_MAX_CHUNKS}
    /\ chunks <= Len(bwtBlock)
    /\ bwtInput = forward(bwtBlock, chunks).output
    /\ primaryIndexes = forward(bwtBlock, chunks).primaryIndexes
    /\ buckets = [c \in 0..255 |-> 0]
    /\ bwtBuffer = <<>>
    /\ dst = [i \in 0..(Len(bwtBlock) - 1) |-> Untouched]
    /\ tasks = <<>>
    /\ writers = [i \in 0..(Len(bwtBlock) - 1) |-> {}]
    /\ bwtPc = "idle"

\* BWT::inverse up to the start of the tasks: the packed buffer, the bucket
\* table, and the tasks
CallInverse ==
    /\ bwtPc = "idle"
    /\ bwtBuffer' = PackedBuffer(bwtInput, primaryIndexes[0])
    /\ buckets' = Buckets(bwtInput)
    /\ tasks' = NewTasks(Len(bwtInput), jobs, chunks, primaryIndexes)
    /\ bwtPc' = "running"
    /\ UNCHANGED <<bwtBlock, bwtInput, jobs, chunks, primaryIndexes, dst, writers>>
    /\ UNCHANGED notBwt

\* one byte of a chunk task: the entry at the seed of the chunk, or the entry
\* the last one leads to, ptr = buffer[(ptr >> 8) + buckets[ptr & 0xFF]]; its
\* low byte goes to dst[idx], and the walk goes one position down
TaskStep(t) ==
    /\ bwtPc = "running"
    /\ ~tasks[t].done
    /\ LET T == tasks[t]
           n == Len(bwtInput)
           seed == IF T.chunk = T.startChunk THEN T.pIdx0
                   ELSE ChunkSeed(T.chunk, chunks, primaryIndexes)
           ptr == IF T.ptr = NoPtr THEN bwtBuffer[seed]
                  ELSE bwtBuffer[(T.ptr \div 256) + buckets[T.ptr % 256]]
           chunkDone == T.idx = ChunkFirst(T.chunk, T.step)
       IN  /\ dst' = [dst EXCEPT ![T.idx] = ptr % 256]
           /\ writers' = [writers EXCEPT ![T.idx] = @ \cup {t}]
           /\ tasks' = [tasks EXCEPT ![t] =
                  IF ~chunkDone THEN [T EXCEPT !.idx = T.idx - 1, !.ptr = ptr]
                  ELSE IF T.chunk + 1 = T.endChunk THEN [T EXCEPT !.done = TRUE, !.ptr = ptr]
                  ELSE [T EXCEPT !.chunk = T.chunk + 1,
                                 !.idx = ChunkLast(T.chunk + 1, T.step, chunks, n),
                                 !.ptr = NoPtr]]
    /\ UNCHANGED <<bwtBlock, bwtInput, jobs, chunks, primaryIndexes, buckets, bwtBuffer,
                   bwtPc>>
    /\ UNCHANGED notBwt

\* with one task there is no other thread: the task is called in inverse; with
\* more the tasks run on their workers, in any order
RunTask == \E t \in DOMAIN tasks : TaskStep(t)

\* inverse joins all the tasks and returns
ReturnInverse ==
    /\ bwtPc = "running"
    /\ \A t \in DOMAIN tasks : tasks[t].done
    /\ bwtPc' = "returned"
    /\ UNCHANGED <<bwtBlock, bwtInput, jobs, chunks, primaryIndexes, buckets, bwtBuffer,
                   dst, tasks, writers>>
    /\ UNCHANGED notBwt

BwtNext == CallInverse \/ RunTask \/ ReturnInverse

SpecBWT == BwtInit /\ [][BwtNext]_vars

\* the task whose chunks hold output position i
OwnerOf(i) ==
    CHOOSE t \in DOMAIN tasks :
        /\ ChunkFirst(tasks[t].startChunk, tasks[t].step) <= i
        /\ i <= ChunkLast(tasks[t].endChunk - 1, tasks[t].step, chunks, Len(bwtInput))

FreqSamples(l) ==
    { f \in {1, 2, 3, 5, 7, 255} \cup { Pow2(k) : k \in 1..(l - 1) }
            \cup { Pow2(k) + 1 : k \in 1..(l - 1) } \cup { Pow2(k) - 1 : k \in 2..l }
            \cup { Pow2(l) - 2 } : f >= 1 /\ f <= Pow2(l) - 1 }

\* the threshold below which the state is when the symbol is applied
XMaxOf(l, f) == Pow2(31 - l) * f

\* the states tried: the ends of [0, xMax) and the states around the
\* multiples of the frequency
StateSamples(l, f) ==
    LET top == XMaxOf(l, f)
        k == Pow2(31 - l)
    IN  { x \in {0, 1, f - 1, f, f + 1, 2 * f - 1, 2 * f, top - 1, top - f, top - f - 1,
                 top \div 2, top \div 256, (top \div 256) + 1, (k \div 2) * f - 1,
                 (k \div 2) * f + (f \div 2), (k - 1) * f - 1} : x >= 0 /\ x < top }

SymInit ==
    /\ FacIdle
    /\ EgIdle
    /\ AnsIdle
    /\ BwtIdle
    /\ HdrIdle
    /\ RunIdle
    /\ RawIdle
    /\ symLogRange \in 8..16
    /\ symFreq \in FreqSamples(symLogRange)
    /\ symCumFreq \in {0, (Pow2(symLogRange) - symFreq) \div 2, Pow2(symLogRange) - symFreq}
    /\ symState \in StateSamples(symLogRange, symFreq)
    /\ encSymbol = NoSymbol
    /\ symNext = 0
    /\ symPc = "init"

\* symb[i].reset(sum, f[i], lr)
CallReset ==
    /\ symPc = "init"
    /\ encSymbol' = reset(symCumFreq, symFreq, symLogRange)
    /\ symPc' = "reset"
    /\ UNCHANGED <<symLogRange, symCumFreq, symFreq, symState, symNext>>
    /\ UNCHANGED notSym

\* q = (st * sym._invFreq) >> sym._invShift; st = int(st + sym._bias + q * sym._cmplFreq)
StepSymbol ==
    /\ symPc = "reset"
    /\ symNext' = NextState(symState, encSymbol)
    /\ symPc' = "stepped"
    /\ UNCHANGED <<symLogRange, symCumFreq, symFreq, symState, encSymbol>>
    /\ UNCHANGED notSym

SymNextStep == CallReset \/ StepSymbol

SpecSymbol == SymInit /\ [][SymNextStep]_vars

\* C(s, x) = M floor(x / q_s) + mod(x, q_s) + b_s
Coded(x, f, cum, l) == (x \div f) * Pow2(l) + (x % f) + cum

\* the fields reset gives for (0, 1, 12) and for (0, 2048, 12)
TestVectors ==
    (symPc # "init" /\ symLogRange = 12 /\ symCumFreq = 0) =>
        /\ symFreq = 1 =>
               /\ encSymbol.invFreq = <<4095, 4095, 255, 0, 0, 0>>
               /\ encSymbol.invShift = 32
               /\ encSymbol.bias = 4095
        /\ symFreq = 2048 =>
               /\ encSymbol.invFreq = <<0, 0, 128, 0, 0, 0>>
               /\ encSymbol.invShift = 42
               /\ encSymbol.bias = 0

\* C11 as stated: for every state 0 <= st < xMax the step by the fields of
\* reset is floor(st/freq) * 2^lr + (st mod freq) + cumFreq.
C11_StepIsDivisionFromZero ==
    /\ TestVectors
    /\ symPc = "stepped" => symNext = Coded(symState, symFreq, symCumFreq, symLogRange)

\* C11: for every lr in 8..16, every freq in 1 .. 2^lr - 1 with
\* cumFreq + freq <= 2^lr and every state st < xMax, with st >= 1 where freq
\* is 1 and st >= 0 otherwise, the step st + bias + ((st * invFreq) >> invShift)
\* * cmplFreq is floor(st/freq) * 2^lr + (st mod freq) + cumFreq; reset(0, 1, 12)
\* gives invFreq = 0xFFFFFFFF, invShift = 32, bias = 2^12 - 1 and
\* reset(0, 2048, 12) gives invFreq = 2^31, invShift = 42, bias = 0.
C11_StepIsDivision ==
    /\ TestVectors
    /\ (symPc = "stepped" /\ (symFreq >= 2 \/ symState >= 1)) =>
           symNext = Coded(symState, symFreq, symCumFreq, symLogRange)

C11_Witness ==
    /\ symPc = "stepped" /\ symLogRange = 16 /\ symFreq = 32769 /\ symCumFreq = 32767
    /\ symState = XMaxOf(16, 32769) - 1
    /\ encSymbol.xMax = XMaxOf(16, 32769)
    /\ symNext = Coded(symState, 32769, 32767, 16)

(***************************************************************************)
(* The log range of a chunk and its field in the header, for every log     *)
(* range the constructor accepts and chunk sizes around every power of 2.  *)
(***************************************************************************)
MaxLogSize == 17

ChunkSizes ==
    { n \in UNION { {Pow2(k) - 1, Pow2(k), Pow2(k) + 1} : k \in 0..MaxLogSize } : n >= 1 }

HdrInit ==
    /\ FacIdle
    /\ EgIdle
    /\ AnsIdle
    /\ BwtIdle
    /\ SymIdle
    /\ RunIdle
    /\ RawIdle
    /\ hdrLogRange \in 8..16
    /\ hdrSizeChunk \in ChunkSizes
    /\ hdrLr = hdrLogRange
    /\ hdrBits = <<>>
    /\ hdrRead = 8
    /\ hdrPc = "chunk"

\* int lr = _logRange; while ((lr > 8) && (1 << lr > sizeChunk)) lr--;
LowerRange ==
    /\ hdrPc = "chunk"
    /\ hdrLr' = LowerLogRange(hdrLogRange, hdrSizeChunk)
    /\ hdrPc' = "lowered"
    /\ UNCHANGED <<hdrLogRange, hdrSizeChunk, hdrBits, hdrRead>>
    /\ UNCHANGED notHdr

\* _bitstream.writeBits(lr - 8, 3): three bits reach the stream; they are the
\* bits of lr - 8 where it has three bits, any three bits where it has more
WriteField ==
    /\ hdrPc = "lowered"
    /\ \E v \in 0..7 :
           /\ hdrLr - 8 < 8 => v = hdrLr - 8
           /\ hdrBits' = LowBits(v, 3)
    /\ hdrPc' = "written"
    /\ UNCHANGED <<hdrLogRange, hdrSizeChunk, hdrLr, hdrRead>>
    /\ UNCHANGED notHdr

\* the reader: lr = 8 + readBits(3)
ReadField ==
    /\ hdrPc = "written"
    /\ hdrRead' = 8 + BitsValue(hdrBits, 0, 3)
    /\ hdrPc' = "read"
    /\ UNCHANGED <<hdrLogRange, hdrSizeChunk, hdrLr, hdrBits>>
    /\ UNCHANGED notHdr

HdrNext == LowerRange \/ WriteField \/ ReadField

SpecHeader == HdrInit /\ [][HdrNext]_vars

\* the lr of encode is between 8 and _logRange, and 2^lr is at most the size
\* of the chunk unless lr is 8
LrLowered ==
    hdrPc \in {"lowered", "written", "read"} =>
        /\ hdrLr \in 8..hdrLogRange
        /\ hdrLr > 8 => Pow2(hdrLr) <= hdrSizeChunk
        /\ hdrLr < hdrLogRange => Pow2(hdrLr + 1) > hdrSizeChunk

\* C13 as stated: for every log range in 8..16 and every chunk size the lr
\* chosen by encode lies in 8.._logRange, lr - 8 fits in the field of 3 bits
\* and a reader of the 3 bits recovers the lr of the encoder
C13_FieldHoldsLogRange ==
    /\ LrLowered
    /\ hdrPc \in {"lowered", "written", "read"} => hdrLr - 8 < Pow2(3)
    /\ hdrPc = "read" => hdrRead = hdrLr

\* what holds: the field carries every lr up to 15, and lr is 16 exactly for
\* a log range of 16 and a chunk of 65536 bytes or more
C13_FieldHoldsBelow16 ==
    /\ LrLowered
    /\ hdrPc \in {"lowered", "written", "read"} =>
           (hdrLr = 16 <=> hdrLogRange = 16 /\ hdrSizeChunk >= 65536)
    /\ (hdrPc = "read" /\ hdrLr <= 15) => hdrRead = hdrLr

C13_Witness ==
    /\ hdrPc = "read" /\ hdrLogRange = 16 /\ hdrSizeChunk = 65536
    /\ hdrLr = 16 /\ hdrRead # hdrLr

(***************************************************************************)
(* encodeChunk over the tables of every log range: each symbol coded is    *)
(* any entry updateFrequencies can set, reset(sum, f, lr) with             *)
(* sum + f <= 2^lr, the frequency 2^lr of a table of one symbol included.  *)
(***************************************************************************)
MaxRun == 3

RunFreqs(l) == {1, 2, 3, 255, Pow2(l - 1), Pow2(l) - 1, Pow2(l)}

RunCums(l, f) == {0, Pow2(l) - f}

RunInit ==
    /\ FacIdle
    /\ EgIdle
    /\ AnsIdle
    /\ BwtIdle
    /\ SymIdle
    /\ HdrIdle
    /\ RawIdle
    /\ runLr \in 8..16
    /\ runSym = NoSymbol
    /\ runSt = ANS_TOP
    /\ runEmitted = <<>>
    /\ runCount = 0
    /\ runPc = "symbol"

\* const ANSEncSymbol sym = symb[data[i]], the entry set by symb[i].reset(sum, f[i], lr)
TakeSymbol ==
    /\ runPc = "symbol"
    /\ runCount < MaxRun
    /\ \E f \in RunFreqs(runLr) : \E cum \in RunCums(runLr, f) :
           runSym' = reset(cum, f, runLr)
    /\ runPc' = "update"
    /\ UNCHANGED <<runLr, runSt, runEmitted, runCount>>
    /\ UNCHANGED notRun

\* while (st >= sym._xMax) { *p-- = byte(st); st >>= 8; } and the next state
UpdateState ==
    /\ runPc = "update"
    /\ LET r == Renormalize(runSt, runSym.xMax, <<>>)
       IN  IF NeverEnds(r.st, runSym.xMax)
           THEN /\ runPc' = "overrun"
                /\ UNCHANGED <<runSt, runEmitted>>
           ELSE /\ runSt' = NextState(r.st, runSym)
                /\ runEmitted' = r.buf
                /\ runPc' = "symbol"
    /\ runCount' = runCount + 1
    /\ UNCHANGED <<runLr, runSym>>
    /\ UNCHANGED notRun

\* the loop over the bytes of the chunk is over
EndOfChunk ==
    /\ runPc = "symbol"
    /\ runCount >= 1
    /\ runPc' = "end"
    /\ UNCHANGED <<runLr, runSym, runSt, runEmitted, runCount>>
    /\ UNCHANGED notRun

RunNext == TakeSymbol \/ UpdateState \/ EndOfChunk

SpecRun == RunInit /\ [][RunNext]_vars

\* C14: throughout encodeChunk, for every lr in 8..16 and every entry of a
\* table summing to 2^lr, xMax is a positive int32, the renormalisation ends
\* after at most two bytes, and the state after each symbol is at least
\* ANS_TOP and below 256 * ANS_TOP
C14_StateInRange ==
    /\ runPc \in {"symbol", "update", "end"}
    /\ runPc = "update" => runSym.xMax >= 1 /\ runSym.xMax <= 2147483647
    /\ runPc \in {"symbol", "update", "end"} =>
           /\ runSt >= ANS_TOP
           /\ runSt \div 256 < ANS_TOP
           /\ Len(runEmitted) <= 2

\* MaxRun symbols coded at lr = 16, the last one of frequency 1 and with
\* bytes emitted by its renormalisation
C14_Witness ==
    /\ runPc = "end" /\ runLr = 16 /\ runCount = MaxRun
    /\ runSym = reset(0, 1, 16)
    /\ runSt >= ANS_TOP /\ Len(runEmitted) >= 1

(***************************************************************************)
(* decodeByte on bits no encoder wrote: a 0, a run of zeros, a 1, and then *)
(* any bits; and runs of zeros that no 1 ends.                             *)
(***************************************************************************)
MaxZeros == 10

TailPatterns == {<<0>>, <<1>>, <<0, 1>>, <<1, 0, 0>>, <<0, 0, 0, 0, 0, 0, 0, 1>>}

Zeros(n) == [k \in 1..n |-> 0]

RawStreams ==
    { <<0>> \o Zeros(z) \o <<1>> \o Cycle(p, n) :
          z \in 0..MaxZeros, p \in TailPatterns, n \in 0..(MaxZeros + 3) }
    \cup { Zeros(n) : n \in 1..(MaxZeros + 3) }
    \cup { <<1>> \o Cycle(p, n) : p \in TailPatterns, n \in 0..3 }

RawInit ==
    /\ FacIdle
    /\ EgIdle
    /\ AnsIdle
    /\ BwtIdle
    /\ SymIdle
    /\ HdrIdle
    /\ RunIdle
    /\ rawBits \in RawStreams
    /\ rawSigned \in BOOLEAN
    /\ rawByteSigned \in BOOLEAN
    /\ rawStart = 0
    /\ rawPos = 0
    /\ rawRes = NoResult

\* decodeByte(), called again on what is left of the stream as long as the
\* call before it returned
CallDecodeByteRaw ==
    /\ rawRes = NoResult \/ (rawRes.ok /\ rawPos < Len(rawBits))
    /\ LET d == decodeByte(rawBits, rawPos, rawSigned, rawByteSigned)
       IN  /\ rawRes' = d
           /\ rawPos' = d.pos
    /\ rawStart' = rawPos
    /\ UNCHANGED <<rawBits, rawSigned, rawByteSigned>>
    /\ UNCHANGED notRaw

SpecDecodeByte == RawInit /\ [][CallDecodeByteRaw]_vars

\* the codewords of the format for a byte
Codewords(sgnMode) ==
    { IF sgnMode THEN EncodeSigned(b) ELSE EncodeUnsigned(b) : b \in 0..255 }

LongestCodeword(sgnMode) ==
    CHOOSE n \in 1..32 : /\ \E c \in Codewords(sgnMode) : Len(c) = n
                         /\ \A c \in Codewords(sgnMode) : Len(c) <= n

\* the bits the last call of decodeByte read
BitsRead == SubSeq(rawBits, rawStart + 1, rawPos)

\* C15 as stated: decodeByte returns a value only for the bits of a codeword
\* of a byte, raises an error for any other bits (a run of zeros giving
\* log2 > 8, a mantissa taking the result above 255), and reads no more bits
\* than the longest codeword has
C15_CorruptionReported ==
    rawRes # NoResult =>
        /\ rawRes.ok => BitsRead \in Codewords(rawSigned)
        /\ Len(BitsRead) <= LongestCodeword(rawSigned)

\* unsigned decodeByte is given 0, seven zeros, 1 and the mantissa 00000001,
\* the code of 256, and returns the byte 0
C15_SilentTruncation ==
    /\ ~rawSigned /\ rawRes # NoResult /\ rawRes.ok /\ rawStart = 0
    /\ BitsRead = <<0, 0, 0, 0, 0, 0, 0, 0, 1, 0, 0, 0, 0, 0, 0, 0, 1>>
    /\ rawRes.val = 0

\* decodeByte reads a run of MaxZeros + 3 zeros to the end of the stream
C15_UnboundedRun ==
    /\ rawRes # NoResult /\ ~rawRes.ok /\ rawStart = 0
    /\ rawBits = Zeros(MaxZeros + 3) /\ rawPos = MaxZeros + 3

=============================================================================
